---- MODULE Spec2Model ----
(***************************************************************************)
(* Model of the QuickModelV6 prediction engine                             *)
(* (backend/python/models/quick_model_v6.py).                              *)
(*                                                                         *)
(* Numbers.  The engine computes in binary floating point.  The model      *)
(* computes in decimal fixed point: a real x is the integer x * Scale      *)
(* (five decimals).  Constants of the source are written N(n) (the         *)
(* integer n) and D(n, d) (the fraction n/d).  Quotients are rounded to    *)
(* the nearest unit.  np.tanh is a table of tanh at steps of 0.01 with     *)
(* linear interpolation in between; it is odd, monotone and stays          *)
(* strictly inside (-1, 1), as np.tanh does on the inputs used here.       *)
(* Python's round(x, n) is modelled as round-half-to-even onto a coarser   *)
(* grid, so a rounded value is an integer in units of 10^-n.               *)
(*                                                                         *)
(* Feature records.  A Python dict is modelled by the dynamic type of its  *)
(* values: num maps the keys that hold a number to that number, cat the    *)
(* keys that hold a category string, flag the keys that hold a bool, and   *)
(* bad the keys that hold a value arithmetic rejects ("str": a             *)
(* non-numeric string, "none": None).  A key in no map is absent from the  *)
(* dict.  kind = "other" is an argument that is not a mapping.             *)
(***************************************************************************)
EXTENDS Integers, Sequences, FiniteSets, TLC

VARIABLES features, result, locals, pc, now, self

vars == <<features, result, locals, pc, now, self>>

-----------------------------------------------------------------------------
(* Fixed-point arithmetic *)

Scale == 100 * 1000

N(n) == n * Scale

Abs(x) == IF x < 0 THEN -x ELSE x

Sign(x) == IF x < 0 THEN -1 ELSE 1

Min(a, b) == IF a <= b THEN a ELSE b

Max(a, b) == IF a >= b THEN a ELSE b

\* a / b rounded to the nearest integer (b > 0), symmetric about zero
RDiv(a, b) == Sign(a) * ((2 * Abs(a) + b) \div (2 * b))

\* the fraction n/d as a fixed-point number
D(n, d) == RDiv(n * Scale, d)

\* the product of two fixed-point numbers (both below 10^4 in magnitude),
\* computed in two halves so that no intermediate exceeds 32 bits
Mul(a, b) ==
    LET x == Abs(a)
        y == Abs(b)
        xh == x \div 1000
        xl == x % 1000
        q == (xh * y) \div 100
        r == (xh * y) % 100
    IN  Sign(a) * Sign(b) * (q + RDiv(r * 1000 + xl * y, Scale))

\* np.clip
Clip(x, lo, hi) == IF x < lo THEN lo ELSE IF x > hi THEN hi ELSE x

\* round(x, n): half-to-even onto the grid of `unit` fixed-point units;
\* the result counts grid steps
RoundHalfEven(x, unit) ==
    LET q == x \div unit
        r == x % unit
    IN  IF 2 * r < unit THEN q
        ELSE IF 2 * r > unit THEN q + 1
        ELSE IF q % 2 = 0 THEN q ELSE q + 1

\* four decimals by cutting the remaining digits off
Round4Truncating(x) == x \div (Scale \div 10000)

Round4(x) == RoundHalfEven(x, Scale \div 10000)

Round3(x) == RoundHalfEven(x, Scale \div 1000)

Round2(x) == RoundHalfEven(x, Scale \div 100)

\* tanh(k * 0.01) for k = 0 .. 500, in fixed point
TanhTable ==
    << 0, 1000, 2000, 2999, 3998, 4996, 5993, 6989, 7983, 8976,
       9967, 10956, 11943, 12927, 13909, 14889, 15865, 16838, 17808, 18775,
       19738, 20697, 21652, 22603, 23550, 24492, 25430, 26362, 27291, 28213,
       29131, 30044, 30951, 31852, 32748, 33638, 34521, 35399, 36271, 37136,
       37995, 38847, 39693, 40532, 41364, 42190, 43008, 43820, 44624, 45422,
       46212, 46995, 47770, 48538, 49299, 50052, 50798, 51536, 52267, 52990,
       53705, 54413, 55113, 55805, 56490, 57167, 57836, 58498, 59152, 59798,
       60437, 61068, 61691, 62307, 62915, 63515, 64108, 64693, 65271, 65841,
       66404, 66959, 67507, 68048, 68581, 69107, 69626, 70137, 70642, 71139,
       71630, 72113, 72590, 73059, 73522, 73978, 74428, 74870, 75307, 75736,
       76159, 76576, 76987, 77391, 77789, 78181, 78566, 78946, 79320, 79688,
       80050, 80406, 80757, 81102, 81441, 81775, 82104, 82427, 82745, 83058,
       83365, 83668, 83965, 84258, 84546, 84828, 85106, 85380, 85648, 85913,
       86172, 86428, 86678, 86925, 87167, 87405, 87639, 87869, 88095, 88317,
       88535, 88749, 88960, 89167, 89370, 89569, 89765, 89958, 90147, 90332,
       90515, 90694, 90870, 91042, 91212, 91379, 91542, 91703, 91860, 92015,
       92167, 92316, 92462, 92606, 92747, 92886, 93022, 93155, 93286, 93415,
       93541, 93665, 93786, 93906, 94023, 94138, 94250, 94361, 94470, 94576,
       94681, 94783, 94884, 94983, 95080, 95175, 95268, 95359, 95449, 95537,
       95624, 95709, 95792, 95873, 95953, 96032, 96109, 96185, 96259, 96331,
       96403, 96473, 96541, 96609, 96675, 96740, 96803, 96865, 96926, 96986,
       97045, 97103, 97159, 97215, 97269, 97323, 97375, 97426, 97477, 97526,
       97574, 97622, 97668, 97714, 97759, 97803, 97846, 97888, 97929, 97970,
       98010, 98049, 98087, 98124, 98161, 98197, 98233, 98267, 98301, 98335,
       98367, 98400, 98431, 98462, 98492, 98522, 98551, 98579, 98607, 98635,
       98661, 98688, 98714, 98739, 98764, 98788, 98812, 98835, 98858, 98881,
       98903, 98924, 98946, 98966, 98987, 99007, 99026, 99045, 99064, 99083,
       99101, 99118, 99136, 99153, 99170, 99186, 99202, 99218, 99233, 99248,
       99263, 99278, 99292, 99306, 99320, 99333, 99346, 99359, 99372, 99384,
       99396, 99408, 99420, 99431, 99443, 99454, 99464, 99475, 99485, 99496,
       99505, 99515, 99525, 99534, 99543, 99552, 99561, 99570, 99578, 99587,
       99595, 99603, 99611, 99618, 99626, 99633, 99641, 99648, 99655, 99662,
       99668, 99675, 99681, 99688, 99694, 99700, 99706, 99712, 99717, 99723,
       99728, 99734, 99739, 99744, 99749, 99754, 99759, 99764, 99768, 99773,
       99777, 99782, 99786, 99790, 99795, 99799, 99803, 99807, 99810, 99814,
       99818, 99821, 99825, 99828, 99832, 99835, 99838, 99842, 99845, 99848,
       99851, 99854, 99857, 99859, 99862, 99865, 99868, 99870, 99873, 99875,
       99878, 99880, 99883, 99885, 99887, 99889, 99892, 99894, 99896, 99898,
       99900, 99902, 99904, 99906, 99908, 99909, 99911, 99913, 99915, 99916,
       99918, 99920, 99921, 99923, 99924, 99926, 99927, 99929, 99930, 99932,
       99933, 99934, 99936, 99937, 99938, 99939, 99941, 99942, 99943, 99944,
       99945, 99946, 99947, 99948, 99949, 99950, 99951, 99952, 99953, 99954,
       99955, 99956, 99957, 99958, 99958, 99959, 99960, 99961, 99962, 99962,
       99963, 99964, 99965, 99965, 99966, 99967, 99967, 99968, 99969, 99969,
       99970, 99970, 99971, 99972, 99972, 99973, 99973, 99974, 99974, 99975,
       99975, 99976, 99976, 99977, 99977, 99978, 99978, 99979, 99979, 99979,
       99980, 99980, 99981, 99981, 99981, 99982, 99982, 99982, 99983, 99983,
       99983, 99984, 99984, 99984, 99985, 99985, 99985, 99986, 99986, 99986,
       99986, 99987, 99987, 99987, 99987, 99988, 99988, 99988, 99988, 99989,
       99989, 99989, 99989, 99990, 99990, 99990, 99990, 99990, 99991, 99991,
       99991 >>

TanhStep == Scale \div 100

\* np.tanh
Tanh(x) ==
    LET ax == Abs(x)
        i == ax \div TanhStep
        lo == TanhTable[i + 1]
        hi == TanhTable[i + 2]
    IN  IF i >= Len(TanhTable) - 1
        THEN Sign(x) * TanhTable[Len(TanhTable)]
        ELSE Sign(x) * (lo + RDiv((hi - lo) * (ax - i * TanhStep), TanhStep))

-----------------------------------------------------------------------------
(* Feature access: features.get(key, default) *)

IsDict(f) == f.kind = "dict"

HasNum(f, k) == k \in DOMAIN f.num

Get(f, k, d) == IF k \in DOMAIN f.num THEN f.num[k] ELSE d

GetCat(f, k, d) == IF k \in DOMAIN f.cat THEN f.cat[k] ELSE d

GetFlag(f, k) == IF k \in DOMAIN f.flag THEN f.flag[k] ELSE FALSE

\* the key holds a non-numeric string
IsStr(f, k) == k \in DOMAIN f.bad /\ f.bad[k] = "str"

\* the key holds None
IsNone(f, k) == k \in DOMAIN f.bad /\ f.bad[k] = "none"

\* the key holds a value on which a comparison with a number, abs() or
\* arithmetic raises TypeError
IsBad(f, k) == k \in DOMAIN f.bad

-----------------------------------------------------------------------------
(* QuickModelV6.__init__ *)

version == "6.0.0"

min_confidence == D(55, 100)

max_confidence == D(98, 100)

\* the six weights, in hundredths
weights ==
    [technical |-> 25, sentiment |-> 35, global_markets |-> 15,
     volume |-> 12, fundamentals |-> 8, intraday |-> 5]

\* lines 52-58
bullish_keywords ==
    [earnings_beat |-> D(20, 10), beat_estimates |-> D(20, 10),
     strong_earnings |-> D(18, 10), revenue_growth |-> D(16, 10),
     guidance_raise |-> D(18, 10), product_launch |-> D(15, 10),
     merger |-> D(14, 10), acquisition |-> D(14, 10),
     partnership |-> D(13, 10), expansion |-> D(14, 10),
     record_revenue |-> D(18, 10), record_profit |-> D(19, 10),
     upgrade |-> D(17, 10), outperform |-> D(16, 10),
     breakthrough |-> D(15, 10), rally |-> D(12, 10)]

\* lines 60-66
bearish_keywords ==
    [earnings_miss |-> -D(20, 10), miss_estimates |-> -D(20, 10),
     weak_earnings |-> -D(18, 10), revenue_decline |-> -D(16, 10),
     guidance_cut |-> -D(18, 10), layoffs |-> -D(17, 10),
     recall |-> -D(15, 10), lawsuit |-> -D(14, 10), scandal |-> -D(16, 10),
     downgrade |-> -D(17, 10), underperform |-> -D(16, 10),
     bankruptcy |-> -D(20, 10), investigation |-> -D(15, 10),
     loss |-> -D(14, 10), decline |-> -D(12, 10), warning |-> -D(13, 10)]

\* the fields of a model instance after __init__
QuickModelV6 ==
    [version |-> version, min_confidence |-> min_confidence,
     max_confidence |-> max_confidence, weights |-> weights,
     bullish_keywords |-> bullish_keywords,
     bearish_keywords |-> bearish_keywords]

\* the model instances of a process
Instances == {1, 2}

-----------------------------------------------------------------------------
(* _calculate_technical_score_v2 *)

\* the two overbought steps in the wrong order
RsiSignalStepsSwapped(rsi) ==
    IF rsi < N(25) THEN D(9, 10)
    ELSE IF rsi < N(30) THEN D(8, 10)
    ELSE IF rsi < N(40) THEN D(4, 10)
    ELSE IF rsi > N(75) THEN -D(8, 10)
    ELSE IF rsi > N(70) THEN -D(9, 10)
    ELSE IF rsi > N(60) THEN -D(4, 10)
    ELSE RDiv((N(50) - rsi) * 3, 1000)

RsiSignal(rsi) ==
    IF rsi < N(25) THEN D(9, 10)
    ELSE IF rsi < N(30) THEN D(8, 10)
    ELSE IF rsi < N(40) THEN D(4, 10)
    ELSE IF rsi > N(75) THEN -D(9, 10)
    ELSE IF rsi > N(70) THEN -D(8, 10)
    ELSE IF rsi > N(60) THEN -D(4, 10)
    ELSE RDiv((N(50) - rsi) * 3, 1000)

MacdSignal(macd_hist, macd_signal_diff) ==
    LET base ==
            IF macd_hist > N(1) THEN D(85, 100)
            ELSE IF macd_hist > D(3, 10) THEN D(5, 10)
            ELSE IF macd_hist > 0 THEN D(25, 100)
            ELSE IF macd_hist < -N(1) THEN -D(85, 100)
            ELSE IF macd_hist < -D(3, 10) THEN -D(5, 10)
            ELSE -D(25, 100)
        divergence ==
            IF macd_signal_diff > D(5, 10) /\ macd_hist < 0 THEN D(3, 10)
            ELSE IF macd_signal_diff < -D(5, 10) /\ macd_hist > 0 THEN -D(3, 10)
            ELSE 0
    IN  base + divergence

\* the position against the averages with its signs the wrong way round
MovingAverageSignalInverted(f) ==
    LET sma_20 == Get(f, "sma_20", 0)
        sma_50 == Get(f, "sma_50", 0)
        sma_200 == Get(f, "sma_200", 0)
        current_price == Get(f, "current_price", 0)
        position ==
            IF current_price > sma_20 /\ sma_20 > sma_50 THEN -D(7, 10)
            ELSE IF current_price > sma_20 THEN -D(4, 10)
            ELSE IF current_price < sma_20 /\ sma_20 < sma_50 THEN D(7, 10)
            ELSE IF current_price < sma_20 THEN D(4, 10)
            ELSE 0
        cross ==
            IF ~HasNum(f, "sma_200") THEN 0
            ELSE IF sma_50 > sma_200 /\ sma_20 > sma_50 THEN D(5, 10)
            ELSE IF sma_50 < sma_200 /\ sma_20 < sma_50 THEN -D(5, 10)
            ELSE 0
    IN  position + cross

MovingAverageSignal(f) ==
    LET sma_20 == Get(f, "sma_20", 0)
        sma_50 == Get(f, "sma_50", 0)
        sma_200 == Get(f, "sma_200", 0)
        current_price == Get(f, "current_price", 0)
        position ==
            IF current_price > sma_20 /\ sma_20 > sma_50 THEN D(7, 10)
            ELSE IF current_price > sma_20 THEN D(4, 10)
            ELSE IF current_price < sma_20 /\ sma_20 < sma_50 THEN -D(7, 10)
            ELSE IF current_price < sma_20 THEN -D(4, 10)
            ELSE 0
        cross ==
            IF ~HasNum(f, "sma_200") THEN 0
            ELSE IF sma_50 > sma_200 /\ sma_20 > sma_50 THEN D(5, 10)
            ELSE IF sma_50 < sma_200 /\ sma_20 < sma_50 THEN -D(5, 10)
            ELSE 0
    IN  position + cross

BollingerSignal(bb_position, bb_width) ==
    LET band ==
            IF bb_position < D(15, 100) THEN D(6, 10)
            ELSE IF bb_position < D(3, 10) THEN D(35, 100)
            ELSE IF bb_position > D(85, 100) THEN -D(6, 10)
            ELSE IF bb_position > D(7, 10) THEN -D(35, 100)
            ELSE 0
        squeeze == IF bb_width < D(1, 10) THEN D(2, 10) ELSE 0
    IN  band + squeeze

DayMomentum(price_change_1d) ==
    RDiv(Tanh(RDiv(price_change_1d, 3)), 2)
        - (IF price_change_1d < -N(2) THEN D(3, 10) ELSE 0)

WeekMomentum(price_change_5d) ==
    RDiv(Tanh(RDiv(price_change_5d, 8)) * 4, 10)

SupportResistanceSignal(f) ==
    (IF GetFlag(f, "bounce_from_support") THEN D(5, 10)
     ELSE IF GetFlag(f, "near_support") THEN D(3, 10)
     ELSE 0)
    - (IF GetFlag(f, "failed_resistance") THEN D(5, 10)
       ELSE IF GetFlag(f, "near_resistance") THEN D(3, 10)
       ELSE 0)

calculate_technical_score_v2(f) ==
    LET has_rsi == HasNum(f, "rsi")
        has_macd == HasNum(f, "macd_histogram")
        has_ma == HasNum(f, "sma_20") /\ HasNum(f, "sma_50")
                      /\ HasNum(f, "current_price")
        has_bb == HasNum(f, "bollinger_position")
        price_change_1d == Get(f, "price_change_1d", 0)
        price_change_5d == Get(f, "price_change_5d", 0)
        has_day == Abs(price_change_1d) > 0
        has_week == Abs(price_change_5d) > 0
        score ==
            (IF has_rsi THEN RsiSignal(f.num["rsi"]) ELSE 0)
            + (IF has_macd
               THEN MacdSignal(f.num["macd_histogram"],
                               Get(f, "macd_signal_diff", 0))
               ELSE 0)
            + (IF has_ma THEN MovingAverageSignal(f) ELSE 0)
            + (IF has_bb
               THEN BollingerSignal(f.num["bollinger_position"],
                                    Get(f, "bollinger_width", 0))
               ELSE 0)
            + (IF has_day THEN DayMomentum(price_change_1d) ELSE 0)
            + (IF has_week THEN WeekMomentum(price_change_5d) ELSE 0)
            + SupportResistanceSignal(f)
        count ==
            (IF has_rsi THEN 1 ELSE 0) + (IF has_macd THEN 1 ELSE 0)
            + (IF has_ma THEN 1 ELSE 0) + (IF has_bb THEN 1 ELSE 0)
            + (IF has_day THEN 1 ELSE 0) + (IF has_week THEN 1 ELSE 0)
    IN  Clip(IF count > 0 THEN RDiv(score, Max(count, 1)) ELSE 0,
             -Scale, Scale)

\* The keys that hold a value of the wrong type in some record of the model;
\* every other key is absent or holds a value of its documented type.
BadKeys == {"current_price", "rsi", "macd_histogram", "price_change_1d"}

\* a scorer that indexes the record, so that an absent rsi raises KeyError
technical_raises_without_rsi(f) ==
    \/ IsStr(f, "rsi")
    \/ IsStr(f, "macd_histogram")
    \/ IsBad(f, "price_change_1d")
    \/ ~HasNum(f, "rsi")

\* the scorer raises TypeError: a value that is not a number reaches a
\* comparison (lines 265, 285) or abs() (line 355)
technical_raises(f) ==
    \/ IsStr(f, "rsi")
    \/ IsStr(f, "macd_histogram")
    \/ IsBad(f, "price_change_1d")

-----------------------------------------------------------------------------
(* _calculate_sentiment_score_v2 *)

calculate_sentiment_score_v2(f) ==
    LET news_sentiment == Get(f, "news_sentiment_score", 0)
        news_count == Get(f, "news_count", 0)
        has_news == news_count > 0
        news == RDiv(Mul(news_sentiment, Min(RDiv(news_count, 15), Scale)), 2)
        bullish_keyword_count == Get(f, "bullish_keyword_count", 0)
        bearish_keyword_count == Get(f, "bearish_keyword_count", 0)
        bullish_keyword_score == Get(f, "bullish_keyword_score_total", 0)
        bearish_keyword_score == Get(f, "bearish_keyword_score_total", 0)
        has_keywords == bullish_keyword_count > 0 \/ bearish_keyword_count > 0
        has_high_impact == has_keywords /\ GetFlag(f, "has_high_impact_keywords")
        keyword_sentiment ==
            Tanh(RDiv(bullish_keyword_score - bearish_keyword_score, 10))
        keywords == RDiv(keyword_sentiment * 7, 10)
        high_impact ==
            IF bullish_keyword_score >= bearish_keyword_score
            THEN D(3, 10) ELSE -D(3, 10)
        earnings_surprise == Get(f, "earnings_surprise_percent", 0)
        guidance_change == Get(f, "guidance_change_percent", 0)
        has_surprise == Abs(earnings_surprise) > 0
        has_guidance == has_surprise /\ Abs(guidance_change) > 0
        surprise_score == RDiv(Tanh(RDiv(earnings_surprise, 15)) * 8, 10)
        guidance_score == RDiv(Tanh(RDiv(guidance_change, 10)) * 6, 10)
        has_surge == GetFlag(f, "has_surge_keywords")
        surge_boost ==
            RDiv(Min(RDiv(Get(f, "surge_keyword_count", 0), 5), Scale) * 85, 100)
        has_bearish == GetFlag(f, "has_bearish_keywords")
        bearish_boost ==
            RDiv(Min(RDiv(bearish_keyword_count, 5), Scale) * 85, 100)
        social_sentiment == Get(f, "social_sentiment", 0)
        has_social == Abs(social_sentiment) > 0
        social_weight == Min(RDiv(Get(f, "social_volume", 0), 1000), Scale)
        social == RDiv(Mul(social_sentiment, social_weight) * 6, 10)
        sector_sentiment == Get(f, "sector_sentiment", 0)
        has_sector == Abs(sector_sentiment) > 0
        sector == RDiv(sector_sentiment * 3, 10)
        analyst_upgrades == Get(f, "analyst_upgrades", 0)
        analyst_downgrades == Get(f, "analyst_downgrades", 0)
        upgrades == RDiv(Min(RDiv(analyst_upgrades, 3), Scale), 2)
        downgrades == RDiv(Min(RDiv(analyst_downgrades, 3), Scale), 2)
        score ==
            (IF has_news THEN news ELSE 0)
            + (IF has_keywords THEN keywords ELSE 0)
            + (IF has_high_impact THEN high_impact ELSE 0)
            + (IF has_surprise THEN surprise_score ELSE 0)
            + (IF has_guidance THEN guidance_score ELSE 0)
            + (IF has_surge THEN surge_boost ELSE 0)
            - (IF has_bearish THEN bearish_boost ELSE 0)
            + (IF has_social THEN social ELSE 0)
            + (IF has_sector THEN sector ELSE 0)
            + (IF analyst_upgrades > 0 THEN upgrades ELSE 0)
            - (IF analyst_downgrades > 0 THEN downgrades ELSE 0)
        count ==
            (IF has_news THEN 1 ELSE 0) + (IF has_keywords THEN 1 ELSE 0)
            + (IF has_high_impact THEN 1 ELSE 0)
            + (IF has_surprise THEN 1 ELSE 0) + (IF has_guidance THEN 1 ELSE 0)
            + (IF has_surge THEN 1 ELSE 0) + (IF has_bearish THEN 1 ELSE 0)
            + (IF has_social THEN 1 ELSE 0) + (IF has_sector THEN 1 ELSE 0)
            + (IF analyst_upgrades > 0 THEN 1 ELSE 0)
            + (IF analyst_downgrades > 0 THEN 1 ELSE 0)
    IN  Clip(IF count > 0 THEN RDiv(score, Max(count, 1)) ELSE 0,
             -Scale, Scale)

-----------------------------------------------------------------------------
(* _calculate_global_market_score_v2 *)

\* one region's term: a fixed step for a sentiment label, else a
\* saturating share of a change above half a percent
RegionTerm(sentiment, change, step, share) ==
    IF sentiment = "positive" THEN step
    ELSE IF sentiment = "negative" THEN -step
    ELSE IF Abs(change) > D(5, 10) THEN Mul(Tanh(change), share)
    ELSE 0

\* lines 517-556: the sum of the regional terms
GlobalMarketTerms(f) ==
    LET asian_strength == Get(f, "asian_market_strength", 0)
    IN      RegionTerm(GetCat(f, "asian_market_sentiment", "neutral"),
                       Get(f, "asian_market_change", 0), D(65, 100), D(6, 10))
            + (IF asian_strength > 0 THEN RDiv(asian_strength * 2, 10) ELSE 0)
            + RegionTerm(GetCat(f, "european_market_sentiment", "neutral"),
                         Get(f, "european_market_change", 0),
                         D(2, 10), D(15, 100))
            + RegionTerm(GetCat(f, "futures_sentiment", "neutral"),
                         Get(f, "futures_change", 0), D(2, 10), D(15, 100))

\* a global score weighted by the time of day of the call
global_market_score_by_time_of_day(f) ==
    IF now % 2 = 1
    THEN Clip(RDiv(GlobalMarketTerms(f), 2), -Scale, Scale)
    ELSE Clip(GlobalMarketTerms(f), -Scale, Scale)

\* the regional terms returned as they are
global_market_score_unclipped(f) == GlobalMarketTerms(f)

\* line 558
calculate_global_market_score_v2(f) ==
    Clip(GlobalMarketTerms(f), -Scale, Scale)

-----------------------------------------------------------------------------
(* _calculate_asian_market_score_with_impact,
   _calculate_european_market_score_with_impact: <<score, impact_pct>> *)

calculate_asian_market_score_with_impact(f) ==
    LET asian_change == Get(f, "asian_market_change", 0)
        asian_sentiment == GetCat(f, "asian_market_sentiment", "neutral")
        asian_strength == Get(f, "asian_market_strength", 0)
        score ==
            IF asian_sentiment = "positive"
            THEN Min(D(4, 10) + RDiv(Abs(asian_change) * 3, 10), Scale)
            ELSE IF asian_sentiment = "negative"
            THEN Max(-D(4, 10) - RDiv(Abs(asian_change) * 3, 10), -Scale)
            ELSE IF Abs(asian_change) > D(5, 10)
            THEN RDiv(Tanh(asian_change) * 6, 10)
            ELSE IF asian_strength > 0 THEN RDiv(asian_strength * 3, 10)
            ELSE 0
        impact_pct ==
            IF asian_sentiment = "positive"
            THEN Min(Abs(asian_change) * 2 + D(25, 10), N(5))
            ELSE IF asian_sentiment = "negative"
            THEN Min(Abs(asian_change) * 2 + D(15, 10), N(4))
            ELSE IF Abs(asian_change) > D(5, 10)
            THEN Min(RDiv(Abs(asian_change) * 15, 10), N(3))
            ELSE RDiv(asian_strength * 15, 10)
    IN  <<Clip(score, -Scale, Scale), Clip(impact_pct, 0, N(10))>>

calculate_european_market_score_with_impact(f) ==
    LET european_change == Get(f, "european_market_change", 0)
        european_sentiment == GetCat(f, "european_market_sentiment", "neutral")
        european_strength == Get(f, "european_market_strength", 0)
        score ==
            IF european_sentiment = "positive"
            THEN Min(D(45, 100) + RDiv(Abs(european_change) * 35, 100), Scale)
            ELSE IF european_sentiment = "negative"
            THEN Max(-D(45, 100) - RDiv(Abs(european_change) * 35, 100), -Scale)
            ELSE IF Abs(european_change) > D(5, 10)
            THEN RDiv(Tanh(european_change) * 6, 10)
            ELSE IF european_strength > 0 THEN RDiv(european_strength * 35, 100)
            ELSE 0
        impact_pct ==
            IF european_sentiment = "positive"
            THEN Min(RDiv(Abs(european_change) * 25, 10) + D(35, 10), N(8))
            ELSE IF european_sentiment = "negative"
            THEN Min(RDiv(Abs(european_change) * 25, 10) + D(25, 10), N(7))
            ELSE IF Abs(european_change) > D(5, 10)
            THEN Min(Abs(european_change) * 2, N(5))
            ELSE european_strength * 2
    IN  <<Clip(score, -Scale, Scale), Clip(impact_pct, 0, N(15))>>

-----------------------------------------------------------------------------
(* _calculate_local_us_factors: <<local_score, factors>> *)

calculate_local_us_factors(f) ==
    LET rsi == Get(f, "rsi", N(50))
        macd == Get(f, "macd", 0)
        technical ==
            (IF rsi < N(30) THEN D(7, 10)
             ELSE IF rsi > N(70) THEN -D(7, 10)
             ELSE IF rsi < N(40) THEN D(3, 10)
             ELSE IF rsi > N(60) THEN -D(3, 10)
             ELSE 0)
            + (IF macd # 0 THEN RDiv(Tanh(macd) * 4, 10) ELSE 0)
        sentiment ==
            RDiv(Tanh(RDiv(Get(f, "news_sentiment_score", 0), 5)) * 8, 10)
        volume_ratio == Get(f, "volume_ratio", N(1))
        volume ==
            IF volume_ratio > D(15, 10) THEN D(6, 10)
            ELSE IF volume_ratio > D(12, 10) THEN D(3, 10)
            ELSE IF volume_ratio < D(8, 10) THEN -D(2, 10)
            ELSE 0
        intraday ==
            RDiv(Tanh(RDiv(Get(f, "intraday_change_percent", 0), 3)), 2)
        pe_pct == Get(f, "pe_percentile", N(50))
        fundamentals ==
            RDiv((pe_pct - N(50)) * 4, 500)
            + RDiv(Tanh(RDiv(Get(f, "earnings_growth", 0), 20)) * 3, 10)
        us_market_influence == Get(f, "us_market_influence_score", 0)
        us_sentiment == GetCat(f, "us_market_sentiment", "neutral")
        us_markets ==
            IF us_sentiment = "negative" \/ us_market_influence < -D(2, 10)
            THEN Max(-D(9, 10), RDiv(us_market_influence * 12, 10))
            ELSE IF us_sentiment = "positive" \/ us_market_influence > D(2, 10)
            THEN Min(D(9, 10), RDiv(us_market_influence * 12, 10))
            ELSE RDiv(us_market_influence * 8, 10)
        other_factors_avg ==
            RDiv(technical + sentiment + volume + intraday + fundamentals, 5)
        local_score ==
            RDiv(us_markets * 4, 10) + RDiv(other_factors_avg * 6, 10)
        factors ==
            [technical |-> Clip(technical, -Scale, Scale),
             sentiment |-> Clip(sentiment, -Scale, Scale),
             volume |-> Clip(volume, -Scale, Scale),
             intraday |-> Clip(intraday, -Scale, Scale),
             fundamentals |-> Clip(fundamentals, -Scale, Scale),
             us_markets |-> Clip(us_markets, -Scale, Scale)]
    IN  <<Clip(local_score, -Scale, Scale), factors>>

\* TypeError at line 637: rsi holds a value that is not a number
local_us_factors_raises(f) == IsBad(f, "rsi")

(* _calculate_local_impact_percent *)

calculate_local_impact_percent(local_score) ==
    LET impact_pct ==
            IF local_score > D(5, 10)
            THEN N(6) + (local_score - D(5, 10)) * 4
            ELSE IF local_score > D(3, 10)
            THEN N(4) + (local_score - D(3, 10)) * 10
            ELSE IF local_score > 0 THEN N(2) + local_score * 10
            ELSE IF local_score < -D(5, 10)
            THEN N(6) + Abs(local_score + D(5, 10)) * 4
            ELSE IF local_score < -D(3, 10)
            THEN N(4) + Abs(local_score + D(3, 10)) * 10
            ELSE IF local_score < 0 THEN N(2) + Abs(local_score) * 10
            ELSE N(1)
    IN  Clip(impact_pct, 0, N(10))

-----------------------------------------------------------------------------
(* _calculate_volume_score_v2 *)

\* lines 723-748: the score chosen by volume ratio and price direction
VolumeRatioScore(volume_ratio, price_change) ==
    IF volume_ratio > N(2)
    THEN IF price_change > N(1) THEN D(8, 10)
         ELSE IF price_change < -N(1) THEN -D(8, 10)
         ELSE D(4, 10)
    ELSE IF volume_ratio > D(15, 10)
    THEN IF price_change > N(1) THEN D(6, 10)
         ELSE IF price_change < -N(1) THEN -D(6, 10)
         ELSE D(3, 10)
    ELSE IF volume_ratio > N(1)
    THEN RDiv(Tanh(RDiv(price_change, 2)) * 4, 10)
    ELSE IF volume_ratio > D(8, 10)
    THEN RDiv(Tanh(RDiv(price_change, 2)) * 3, 10)
    ELSE RDiv(Tanh(RDiv(price_change, 3)) * 2, 10)

\* lines 750-754: the penalty for a drop of the day's price
VolumeDropFloor(score, price_change) ==
    IF price_change < -N(2) THEN Min(score, -D(5, 10))
    ELSE IF price_change < -D(15, 10) THEN Min(score, -D(3, 10))
    ELSE score

\* lines 756-760: the volume trend as a modifier
VolumeTrendModifier(volume_trend) ==
    IF volume_trend = "up" THEN D(1, 10)
    ELSE IF volume_trend = "down" THEN -D(5, 100)
    ELSE 0

calculate_volume_score_v2(f) ==
    LET volume_ratio == Get(f, "volume_ratio", N(1))
        volume_trend == GetCat(f, "volume_trend", "stable")
        price_change == Get(f, "price_change_1d", 0)
        score ==
            VolumeDropFloor(VolumeRatioScore(volume_ratio, price_change),
                            price_change)
            + VolumeTrendModifier(volume_trend)
    IN  Clip(score, -Scale, Scale)

-----------------------------------------------------------------------------
(* _calculate_fundamental_score_v2 *)

calculate_fundamental_score_v2(f) ==
    LET revenue_growth == Get(f, "revenue_growth", 0)
        earnings_growth == Get(f, "earnings_growth", 0)
        margin_change == Get(f, "margin_change_percent", 0)
        analyst_action == GetCat(f, "analyst_action", "none")
        insider_activity == GetCat(f, "insider_activity", "neutral")
        pe_percentile == Get(f, "pe_percentile", N(50))
        has_revenue == Abs(revenue_growth) > D(5, 10)
        has_earnings == Abs(earnings_growth) > D(5, 10)
        has_margin == Abs(margin_change) > D(5, 10)
        has_analyst == analyst_action \in {"upgrade", "downgrade"}
        has_insider == insider_activity \in {"buying", "selling"}
        score ==
            (IF has_revenue
             THEN RDiv(Tanh(RDiv(revenue_growth, 25)) * 7, 10) ELSE 0)
            + (IF has_earnings
               THEN RDiv(Tanh(RDiv(earnings_growth, 30)) * 8, 10) ELSE 0)
            + (IF has_margin
               THEN RDiv(Tanh(RDiv(margin_change, 20)), 2) ELSE 0)
            + (IF analyst_action = "upgrade" THEN D(6, 10)
               ELSE IF analyst_action = "downgrade" THEN -D(6, 10) ELSE 0)
            + (IF insider_activity = "buying" THEN D(5, 10)
               ELSE IF insider_activity = "selling" THEN -D(5, 10) ELSE 0)
            + RDiv(pe_percentile - N(50), 100)
        count ==
            (IF has_revenue THEN 1 ELSE 0) + (IF has_earnings THEN 1 ELSE 0)
            + (IF has_margin THEN 1 ELSE 0) + (IF has_analyst THEN 1 ELSE 0)
            + (IF has_insider THEN 1 ELSE 0) + 1
    IN  Clip(RDiv(score, Max(count, 1)), -Scale, Scale)

-----------------------------------------------------------------------------
(* _calculate_intraday_score *)

calculate_intraday_score(f) ==
    LET intraday_change == Get(f, "intraday_change_percent", 0)
        intraday_volume_ratio == Get(f, "intraday_volume_ratio", N(1))
        open_close_gap == Get(f, "open_close_gap_percent", 0)
        has_change == Abs(intraday_change) > D(1, 10)
        has_volume == intraday_volume_ratio > D(11, 10)
        has_gap == Abs(open_close_gap) > D(1, 10)
        score ==
            (IF has_change THEN RDiv(Tanh(RDiv(intraday_change, 5)), 2)
             ELSE IF intraday_volume_ratio > N(1)
             THEN RDiv(intraday_volume_ratio - N(1), 10)
             ELSE 0)
            + (IF intraday_volume_ratio > D(15, 10)
               THEN RDiv(Tanh((intraday_volume_ratio - N(1)) * 2) * 3, 10)
               ELSE IF intraday_volume_ratio > D(11, 10)
               THEN RDiv((intraday_volume_ratio - N(1)) * 2, 10)
               ELSE 0)
            + (IF has_gap THEN RDiv(Tanh(RDiv(open_close_gap, 3)) * 4, 10)
               ELSE 0)
        count ==
            1 + (IF has_volume THEN 1 ELSE 0) + (IF has_gap THEN 1 ELSE 0)
    IN  Clip(RDiv(score, Max(count, 1)), -Scale, Scale)

-----------------------------------------------------------------------------
(* _calibrate_probability *)

\* lines 877-882: the boost when technicals and sentiment strongly agree
AlignmentBoost(adjusted, tech_score, sent_score) ==
    IF \/ (tech_score > D(6, 10) /\ sent_score > D(5, 10))
       \/ (tech_score < -D(6, 10) /\ sent_score < -D(5, 10))
    THEN LET alignment_boost ==
                 Min(RDiv(Abs(Mul(tech_score, sent_score)), 10), D(12, 100))
         IN  IF adjusted > D(5, 10) THEN adjusted + alignment_boost
             ELSE adjusted - alignment_boost
    ELSE adjusted

\* lines 885-891: high volatility pulls the probability back from extremes
VolatilityAdjustment(adjusted, volatility) ==
    IF volatility > D(25, 10)
    THEN IF adjusted > D(75, 100)
         THEN D(75, 100) + RDiv((adjusted - D(75, 100)) * 6, 10)
         ELSE IF adjusted < D(25, 100)
         THEN D(25, 100) - RDiv((D(25, 100) - adjusted) * 6, 10)
         ELSE adjusted
    ELSE adjusted

\* a clamp that forgets the lower limit
EnsureUpperBoundOnly(adjusted) == Min(adjusted, max_confidence)

\* a clamp that forgets the upper limit
EnsureLowerBoundOnly(adjusted) == Max(adjusted, min_confidence)

\* line 894: np.clip(adjusted, self.min_confidence, self.max_confidence)
EnsureBounds(adjusted) == Clip(adjusted, min_confidence, max_confidence)

calibrate_probability(composite_score, f, tech_score, sent_score) ==
    LET adjusted ==
            D(5, 10) + RDiv(Tanh(RDiv(composite_score * 3, 2)) * 45, 100)
        boosted == AlignmentBoost(adjusted, tech_score, sent_score)
        damped == VolatilityAdjustment(boosted, Get(f, "volatility", N(1)))
    IN  EnsureBounds(damped)

-----------------------------------------------------------------------------
(* predict, lines 95-155: the steps between the scorers and the result *)

\* lines 96-106: sentiment is halved when the day's price contradicts it
DampenSentiment(sentiment_score, price_change_1d) ==
    IF price_change_1d < -N(2) /\ sentiment_score > D(2, 10)
    THEN RDiv(sentiment_score, 2)
    ELSE IF price_change_1d > N(2) /\ sentiment_score < -D(2, 10)
    THEN RDiv(sentiment_score, 2)
    ELSE sentiment_score

\* lines 117-124: the weighted composite score
CompositeScore(technical_score, sentiment_score, global_score, volume_score, fundamental_score, intraday_score) ==
    RDiv(technical_score * weights.technical
         + sentiment_score * weights.sentiment
         + global_score * weights.global_markets
         + volume_score * weights.volume
         + fundamental_score * weights.fundamentals
         + intraday_score * weights.intraday, 100)

\* an override whose bearish branch takes the larger of the two values
HardOverrideMaxForMin(bullish_probability, composite_score) ==
    IF composite_score < -D(1, 10) THEN Max(bullish_probability, D(44, 100))
    ELSE IF composite_score > D(1, 10)
    THEN Max(bullish_probability, D(56, 100))
    ELSE bullish_probability

\* lines 130-135: the hard override for a clearly bearish or bullish composite
HardOverride(bullish_probability, composite_score) ==
    IF composite_score < -D(1, 10) THEN Min(bullish_probability, D(44, 100))
    ELSE IF composite_score > D(1, 10)
    THEN Max(bullish_probability, D(56, 100))
    ELSE bullish_probability

\* lines 138-148: no probability is left between 45% and 55%
NoNeutralZone(bullish_probability, composite_score, technical_score, sentiment_score, global_score, intraday_score) ==
    IF D(45, 100) < bullish_probability /\ bullish_probability < D(55, 100)
    THEN LET strongest_signal ==
                 Max(Max(Abs(technical_score), Abs(sentiment_score)),
                     Max(Abs(global_score), Abs(intraday_score)))
         IN  IF strongest_signal > D(3, 10)
             THEN IF composite_score >= 0 THEN D(58, 100) ELSE D(42, 100)
             ELSE IF composite_score > 0 THEN D(56, 100) ELSE D(44, 100)
    ELSE bullish_probability

\* line 150
BearishProbability(bullish_probability) == Scale - bullish_probability

\* line 153
IsBullish(bullish_probability) == bullish_probability > D(5, 10)

\* line 154
Confidence(bullish_probability) ==
    IF IsBullish(bullish_probability) THEN bullish_probability
    ELSE BearishProbability(bullish_probability)

\* a direction that keeps a band around 50% for "neutral"
DirectionWithNeutralBand(bullish_probability) ==
    IF bullish_probability > D(55, 100) THEN "up"
    ELSE IF bullish_probability < D(45, 100) THEN "down"
    ELSE "neutral"

\* lines 153-155
Direction(bullish_probability) ==
    IF IsBullish(bullish_probability) THEN "up" ELSE "down"

-----------------------------------------------------------------------------
(* _calculate_target_price_v2: <<target_price, change_percent>> *)

\* lines 939-950: the multipliers for recent and longer momentum
MomentumBoost(adjusted_change, price_change_1d, price_change_5d) ==
    LET recent ==
            IF Abs(price_change_1d) > D(15, 10)
            THEN RDiv(adjusted_change * 125, 100)
            ELSE IF Abs(price_change_1d) > N(1)
            THEN RDiv(adjusted_change * 115, 100)
            ELSE IF Abs(price_change_1d) > D(5, 10)
            THEN RDiv(adjusted_change * 105, 100)
            ELSE adjusted_change
    IN  IF Abs(price_change_5d) > N(4) THEN RDiv(recent * 120, 100)
        ELSE IF Abs(price_change_5d) > D(25, 10) THEN RDiv(recent * 112, 100)
        ELSE recent

\* a floor at half of the day's move
MomentumFloorHalf(adjusted_change, is_bullish, price_change_1d) ==
    IF is_bullish /\ price_change_1d > N(1)
    THEN Max(adjusted_change, RDiv(price_change_1d, 2))
    ELSE IF ~is_bullish /\ price_change_1d < -N(1)
    THEN Max(adjusted_change, RDiv(Abs(price_change_1d), 2))
    ELSE adjusted_change

\* lines 953-956: at least 80% of the day's move in the predicted direction
MomentumFloor(adjusted_change, is_bullish, price_change_1d) ==
    IF is_bullish /\ price_change_1d > N(1)
    THEN Max(adjusted_change, RDiv(price_change_1d * 8, 10))
    ELSE IF ~is_bullish /\ price_change_1d < -N(1)
    THEN Max(adjusted_change, RDiv(Abs(price_change_1d) * 8, 10))
    ELSE adjusted_change

\* line 959
CapChange(adjusted_change) == Clip(adjusted_change, D(5, 10), N(10))

\* a change that is never negated
ApplyDirectionUnsigned(adjusted_change, is_bullish) == adjusted_change

\* line 962
ApplyDirection(adjusted_change, is_bullish) ==
    IF is_bullish THEN adjusted_change ELSE -adjusted_change

\* line 965: current_price * (1 + change_percent / 100)
TargetPrice(current_price, change_percent) ==
    current_price + Mul(change_percent, RDiv(current_price, 100))

calculate_target_price_v2(current_price, confidence, is_bullish, f, technical_score, sentiment_score) ==
    LET confidence_factor == RDiv((confidence - D(55, 100)) * 100, 43)
        min_change == N(1)
        max_change == N(8)
        base_change ==
            min_change + Mul(max_change - min_change, confidence_factor)
        market_influence ==
            Max(0, RDiv(Get(f, "global_market_change", 0) * 2, 10)
                   + RDiv(Get(f, "volume_ratio", N(1)) - N(1), 10))
        volatility == Get(f, "volatility", N(1))
        volatility_multiplier == Min(RDiv(volatility * 10, 18), D(16, 10))
        combined_influence ==
            RDiv(technical_score, 2) + RDiv(sentiment_score * 6, 10)
        adjusted_change ==
            Mul(Mul(Mul(base_change, volatility_multiplier),
                    Scale + RDiv(combined_influence * 7, 10)),
                Scale + market_influence)
        boosted ==
            MomentumBoost(adjusted_change, Get(f, "price_change_1d", 0),
                          Get(f, "price_change_5d", 0))
        floored ==
            MomentumFloor(boosted, is_bullish, Get(f, "price_change_1d", 0))
        change_percent == ApplyDirection(CapChange(floored), is_bullish)
    IN  <<TargetPrice(current_price, change_percent), change_percent>>

-----------------------------------------------------------------------------
(* _generate_signals_v2: the signals as <<type, strength>> records; the
   reason texts are left out *)

Signal(type, strength) == [type |-> type, strength |-> strength]

generate_signals_v2(f, is_bullish, confidence, technical_score, sentiment_score, composite_score) ==
    LET buy ==
            IF is_bullish /\ confidence > D(80, 100)
               /\ technical_score > D(6, 10) /\ sentiment_score > D(4, 10)
            THEN <<Signal("BUY", "VERY STRONG")>>
            ELSE IF is_bullish /\ confidence > D(70, 100)
            THEN <<Signal("BUY", "STRONG")>>
            ELSE IF is_bullish /\ confidence > D(60, 100)
            THEN <<Signal("BUY", "MODERATE")>>
            ELSE <<>>
        sell ==
            IF ~is_bullish /\ confidence > D(80, 100)
               /\ technical_score < -D(6, 10) /\ sentiment_score < -D(4, 10)
            THEN <<Signal("SELL", "VERY STRONG")>>
            ELSE IF ~is_bullish /\ confidence > D(70, 100)
            THEN <<Signal("SELL", "STRONG")>>
            ELSE IF ~is_bullish /\ confidence > D(60, 100)
            THEN <<Signal("SELL", "MODERATE")>>
            ELSE <<>>
        rsi == Get(f, "rsi", 0)
        has_rsi == HasNum(f, "rsi") /\ rsi # 0
        overbought ==
            IF has_rsi /\ rsi > N(80) THEN <<Signal("WARNING", "CRITICAL")>>
            ELSE IF has_rsi /\ rsi > N(75) THEN <<Signal("WARNING", "HIGH")>>
            ELSE <<>>
        oversold ==
            IF has_rsi /\ rsi < N(20)
            THEN <<Signal("OPPORTUNITY", "CRITICAL")>>
            ELSE IF has_rsi /\ rsi < N(25)
            THEN <<Signal("OPPORTUNITY", "HIGH")>>
            ELSE <<>>
        volume_ratio == Get(f, "volume_ratio", N(1))
        volume ==
            IF volume_ratio > D(25, 10) THEN <<Signal("ALERT", "CRITICAL")>>
            ELSE IF volume_ratio > D(18, 10) THEN <<Signal("ALERT", "HIGH")>>
            ELSE <<>>
        news_count == Get(f, "news_count", 0)
        news ==
            IF sentiment_score > D(7, 10) /\ news_count > N(5)
            THEN <<Signal("BUY", "STRONG")>>
            ELSE IF sentiment_score < -D(7, 10) /\ news_count > N(5)
            THEN <<Signal("SELL", "STRONG")>>
            ELSE <<>>
        signals == buy \o sell \o overbought \o oversold \o volume \o news
    IN  SubSeq(signals, 1, Min(5, Len(signals)))

-----------------------------------------------------------------------------
(* _error_response *)

error_response(message, t) ==
    [success |-> FALSE, error |-> message, model_version |-> version,
     timestamp |-> t]

-----------------------------------------------------------------------------
(* predict *)

NoResult == [success |-> FALSE, error |-> "no result",
             model_version |-> "", timestamp |-> -1]

Scorers ==
    {"technical", "sentiment", "global_markets", "volume", "fundamentals",
     "intraday"}

\* lines 87-114: the six component scores, with the sentiment score damped
\* when the day's price contradicts it, and the three region scores
ComponentScores(f) ==
    [technical |-> calculate_technical_score_v2(f),
     sentiment |->
         DampenSentiment(calculate_sentiment_score_v2(f),
                         Get(f, "price_change_1d", 0)),
     global_markets |-> calculate_global_market_score_v2(f),
     volume |-> calculate_volume_score_v2(f),
     fundamentals |-> calculate_fundamental_score_v2(f),
     intraday |-> calculate_intraday_score(f),
     asian |-> calculate_asian_market_score_with_impact(f),
     european |-> calculate_european_market_score_with_impact(f),
     local |-> calculate_local_us_factors(f)]

\* lines 116-250: the record built from the component scores s and the
\* values of predict's local variables when it is built.  Probabilities are
\* reported in units of 10^-4, scores and contributions in units of 10^-3,
\* prices and percentages in units of 10^-2.  The fields that echo input
\* features (lines 229-240), the reason texts and top_reasons are left out.
Decide(f, current_price, t, s) ==
    LET technical_score == s.technical
        sentiment_score == s.sentiment
        global_score == s.global_markets
        volume_score == s.volume
        fundamental_score == s.fundamentals
        intraday_score == s.intraday
        asian == s.asian
        european == s.european
        local == s.local
        local_impact_pct == calculate_local_impact_percent(local[1])
        composite_score ==
            CompositeScore(technical_score, sentiment_score, global_score,
                           volume_score, fundamental_score, intraday_score)
        calibrated ==
            calibrate_probability(composite_score, f, technical_score,
                                  sentiment_score)
        bullish_probability ==
            NoNeutralZone(HardOverride(calibrated, composite_score),
                          composite_score, technical_score, sentiment_score,
                          global_score, intraday_score)
        bearish_probability == BearishProbability(bullish_probability)
        is_bullish == IsBullish(bullish_probability)
        confidence == Confidence(bullish_probability)
        direction == Direction(bullish_probability)
        target ==
            calculate_target_price_v2(current_price, confidence, is_bullish,
                                      f, technical_score, sentiment_score)
        signals ==
            generate_signals_v2(f, is_bullish, confidence, technical_score,
                                sentiment_score, composite_score)
    IN  [value |->
             [success |-> TRUE,
              model_version |-> version,
              prediction |->
                  [direction |-> direction,
                   label |-> IF is_bullish THEN "BULLISH" ELSE "BEARISH",
                   bullish_probability |-> Round4(bullish_probability),
                   bearish_probability |-> Round4(bearish_probability),
                   confidence |-> Round4(confidence),
                   predicted_price |-> Round2(target[1]),
                   target_change_percent |-> Round2(target[2]),
                   expected_pct_move |-> Round2(target[2]),
                   current_price |-> Round2(current_price),
                   probability |-> Round4(confidence)],
              scores |->
                  [technical |-> Round3(technical_score),
                   sentiment |-> Round3(sentiment_score),
                   global_markets |-> Round3(global_score),
                   volume |-> Round3(volume_score),
                   fundamentals |-> Round3(fundamental_score),
                   intraday |-> Round3(intraday_score),
                   composite |-> Round3(composite_score),
                   base_score |-> Round3(composite_score),
                   final_score |-> Round3(composite_score)],
              asian_influence_score |-> Round3(asian[1]),
              asian_impact_percent |-> Round4(asian[2]),
              european_influence_score |-> Round3(european[1]),
              european_impact_percent |-> Round4(european[2]),
              local_score |-> Round3(local[1]),
              local_impact_percent |-> Round4(local_impact_pct),
              local_factors |-> local[2],
              contributions |->
                  [technical |->
                       RoundHalfEven(technical_score * weights.technical,
                                     Scale \div 10),
                   sentiment |->
                       RoundHalfEven(sentiment_score * weights.sentiment,
                                     Scale \div 10),
                   global_markets |->
                       RoundHalfEven(global_score * weights.global_markets,
                                     Scale \div 10),
                   volume |->
                       RoundHalfEven(volume_score * weights.volume,
                                     Scale \div 10),
                   fundamentals |->
                       RoundHalfEven(fundamental_score * weights.fundamentals,
                                     Scale \div 10),
                   intraday |->
                       RoundHalfEven(intraday_score * weights.intraday,
                                     Scale \div 10)],
              signals |-> signals,
              timestamp |-> t],
         frame |->
             [technical_score |-> technical_score,
              sentiment_score |-> sentiment_score,
              global_score |-> global_score,
              volume_score |-> volume_score,
              fundamental_score |-> fundamental_score,
              intraday_score |-> intraday_score,
              asian_score |-> asian[1],
              asian_impact_pct |-> asian[2],
              european_score |-> european[1],
              european_impact_pct |-> european[2],
              local_score |-> local[1],
              local_impact_pct |-> local_impact_pct,
              composite_score |-> composite_score,
              calibrated |-> calibrated,
              bullish_probability |-> bullish_probability,
              bearish_probability |-> bearish_probability,
              is_bullish |-> is_bullish,
              confidence |-> confidence,
              current_price |-> current_price,
              target_price |-> target[1],
              target_change_percent |-> target[2]]]

\* lines 87-250: predict from the scorers to the result
Response(f, current_price, t) ==
    Decide(f, current_price, t, ComponentScores(f))

NoFrame == [composite_score |-> 0]

\* a price check that lets zero through
InvalidPriceNegativeOnly(current_price) == current_price < 0

\* line 84
InvalidPrice(current_price) == current_price <= 0

\* an exception leaving the body of the try statement after the scorers in
\* `computed` were called; the class name stands for the exception's message
Raise(exception, computed) ==
    [raised |-> TRUE, exception |-> exception, value |-> NoResult,
     computed |-> computed, frame |-> NoFrame]

\* line 250: the body returns the record r built after all scorers ran
Return(r) ==
    [raised |-> FALSE, exception |-> "", value |-> r.value,
     computed |-> Scorers, frame |-> r.frame]

\* lines 79-250, the body of the try statement: `raised` says that an
\* exception leaves the body, `computed` names the component scorers that
\* were called
TryBody(f, t) ==
    IF ~IsDict(f)
    THEN \* line 83: the argument has no get()
         Raise("AttributeError", {})
    ELSE IF IsBad(f, "current_price")
    THEN \* line 83: float() rejects the value
         Raise(IF IsStr(f, "current_price") THEN "ValueError"
               ELSE "TypeError", {})
    ELSE IF InvalidPrice(Get(f, "current_price", 0))
    THEN \* lines 84-85
         [raised |-> FALSE, exception |-> "",
          value |-> error_response("Invalid current price", t),
          computed |-> {}, frame |-> NoFrame]
    ELSE IF technical_raises(f)
    THEN \* line 88
         Raise("TypeError", {"technical"})
    ELSE IF local_us_factors_raises(f)
    THEN \* line 111
         Raise("TypeError", Scorers)
    ELSE Return(Response(f, Get(f, "current_price", 0), t))

\* a try statement without its except clause: the exception goes on
Propagate(body, t) ==
    [outcome |-> IF body.raised THEN "raised" ELSE "returned",
     value |-> body.value, computed |-> body.computed,
     raised |-> body.raised, frame |-> body.frame]

\* lines 78, 252-253: what the try statement makes of its body.  outcome is
\* "returned" when predict returns a record and "raised" when an exception
\* reaches the caller.
Handle(body, t) ==
    IF body.raised
    THEN [outcome |-> "returned",
          value |->
              error_response("Prediction error: " \o body.exception, t),
          computed |-> body.computed, raised |-> TRUE, frame |-> NoFrame]
    ELSE [outcome |-> "returned", value |-> body.value,
          computed |-> body.computed, raised |-> FALSE,
          frame |-> body.frame]

\* lines 68-253
predict(f, t) == Handle(TryBody(f, t), t)

-----------------------------------------------------------------------------
(* The feature records of the model *)

\* the day's price change runs over -PriceChangeSteps .. PriceChangeSteps
\* percent
PriceChangeSteps == 3

NoKeys == <<>>

Without(fn, k) == [x \in DOMAIN fn \ {k} |-> fn[x]]

Profile(num, cat, flag) == [num |-> num, cat |-> cat, flag |-> flag]

NoProfile == Profile(NoKeys, NoKeys, NoKeys)

TechnicalProfiles ==
    { NoProfile,
      Profile("rsi" :> N(55), NoKeys, NoKeys),
      Profile("rsi" :> N(20) @@ "macd_histogram" :> D(12, 10)
                  @@ "sma_20" :> N(98) @@ "sma_50" :> N(95)
                  @@ "sma_200" :> N(90)
                  @@ "bollinger_position" :> D(1, 10)
                  @@ "bollinger_width" :> D(5, 100),
              NoKeys, "bounce_from_support" :> TRUE),
      Profile("rsi" :> N(80) @@ "macd_histogram" :> -D(12, 10)
                  @@ "sma_20" :> N(102) @@ "sma_50" :> N(105)
                  @@ "sma_200" :> N(110)
                  @@ "bollinger_position" :> D(9, 10)
                  @@ "bollinger_width" :> D(2, 10),
              NoKeys, "failed_resistance" :> TRUE) }

SentimentProfiles ==
    { NoProfile,
      Profile("news_sentiment_score" :> D(8, 10) @@ "news_count" :> N(6),
              NoKeys, NoKeys),
      Profile("news_sentiment_score" :> N(3) @@ "news_count" :> N(15),
              NoKeys, NoKeys),
      Profile("news_sentiment_score" :> -N(3) @@ "news_count" :> N(15),
              NoKeys, NoKeys) }

GlobalProfiles ==
    { NoProfile,
      Profile("asian_market_change" :> D(8, 10)
                  @@ "european_market_change" :> -D(8, 10),
              NoKeys, NoKeys),
      Profile("asian_market_change" :> D(15, 10)
                  @@ "asian_market_strength" :> N(1)
                  @@ "european_market_change" :> N(1),
              "asian_market_sentiment" :> "positive"
                  @@ "european_market_sentiment" :> "positive"
                  @@ "futures_sentiment" :> "positive",
              NoKeys),
      Profile("asian_market_change" :> -D(15, 10)
                  @@ "european_market_change" :> -N(1),
              "asian_market_sentiment" :> "negative"
                  @@ "european_market_sentiment" :> "negative"
                  @@ "futures_sentiment" :> "negative",
              NoKeys) }

VolumeProfiles ==
    { NoProfile,
      Profile("volume_ratio" :> D(24, 10), "volume_trend" :> "up", NoKeys),
      Profile("volume_ratio" :> D(12, 10), "volume_trend" :> "up", NoKeys),
      Profile("volume_ratio" :> D(4, 10), "volume_trend" :> "down", NoKeys) }

FundamentalProfiles ==
    { NoProfile,
      Profile("pe_percentile" :> N(100) @@ "earnings_growth" :> N(30),
              "analyst_action" :> "upgrade"
                  @@ "insider_activity" :> "buying",
              NoKeys),
      Profile("pe_percentile" :> 0 @@ "earnings_growth" :> -N(30),
              "analyst_action" :> "downgrade"
                  @@ "insider_activity" :> "selling",
              NoKeys) }

IntradayProfiles ==
    { NoProfile,
      Profile("intraday_change_percent" :> N(2)
                  @@ "intraday_volume_ratio" :> D(16, 10)
                  @@ "open_close_gap_percent" :> N(1),
              NoKeys, NoKeys) }

PriceChanges ==
    { N(k) : k \in -PriceChangeSteps .. PriceChangeSteps }

Volatilities == { NoKeys, "volatility" :> N(3) }

\* a dict with the keys of all its parts
Dict(num, cat, flag, bad) ==
    [kind |-> "dict", num |-> num, cat |-> cat, flag |-> flag, bad |-> bad]

\* records with a valid current price and values of the documented types
ValidInputs ==
    { Dict("current_price" :> N(100) @@ "price_change_1d" :> change @@ vol
               @@ t.num @@ s.num @@ g.num @@ v.num @@ fd.num @@ i.num,
           g.cat @@ v.cat @@ fd.cat,
           t.flag,
           NoKeys) :
        t \in TechnicalProfiles, s \in SentimentProfiles,
        g \in GlobalProfiles, v \in VolumeProfiles,
        fd \in FundamentalProfiles, i \in IntradayProfiles,
        change \in PriceChanges, vol \in Volatilities }

\* records whose current price is absent, zero, negative or not a number
InvalidPriceInputs ==
    { Dict(price.num @@ t.num @@ s.num, NoKeys, t.flag, price.bad) :
        t \in TechnicalProfiles, s \in SentimentProfiles,
        price \in
            { [num |-> NoKeys, bad |-> NoKeys],
              [num |-> "current_price" :> 0, bad |-> NoKeys],
              [num |-> "current_price" :> -N(5), bad |-> NoKeys],
              [num |-> NoKeys, bad |-> "current_price" :> "str"],
              [num |-> NoKeys, bad |-> "current_price" :> "none"] } }

\* records with a valid current price in which one feature holds a value
\* that is not a number
WrongTypeInputs ==
    { Dict(Without("current_price" :> N(100) @@ t.num @@ s.num,
                   CHOOSE k \in DOMAIN b : TRUE),
           NoKeys, t.flag, b) :
        t \in TechnicalProfiles, s \in SentimentProfiles,
        b \in { "rsi" :> "str", "rsi" :> "none", "macd_histogram" :> "str",
                "price_change_1d" :> "str", "price_change_1d" :> "none" } }

\* a function restricted to the keys in `keys`
Restrict(fn, keys) == [x \in DOMAIN fn \cap keys |-> fn[x]]

\* a record that holds every key of PartialKeys
FullRecord ==
    [num |-> "rsi" :> N(20) @@ "macd_histogram" :> D(12, 10)
                 @@ "sma_20" :> N(98) @@ "sma_50" :> N(95)
                 @@ "news_sentiment_score" :> D(8, 10)
                 @@ "news_count" :> N(6) @@ "volume_ratio" :> D(24, 10)
                 @@ "pe_percentile" :> N(100)
                 @@ "intraday_change_percent" :> N(2),
     cat |-> "asian_market_sentiment" :> "positive"]

PartialKeys == DOMAIN FullRecord.num \cup DOMAIN FullRecord.cat

\* records with a valid current price and any subset of PartialKeys
PartialInputs ==
    { Dict("current_price" :> N(100) @@ Restrict(FullRecord.num, keys),
           Restrict(FullRecord.cat, keys), NoKeys, NoKeys) :
        keys \in SUBSET PartialKeys }

\* records that carry a local score computed outside the engine
SuppliedLocalScoreInputs ==
    { Dict("current_price" :> N(100) @@ "local_us_influence_score" :> v
               @@ t.num,
           NoKeys, t.flag, NoKeys) :
        t \in TechnicalProfiles, v \in {D(9, 10), -D(6, 10)} }

\* the RSI values swept: RsiLow .. RsiHigh
RsiLow == 20

RsiHigh == 90

\* records that differ in rsi only, without and with a MACD histogram
RsiSweepInputs ==
    { Dict("current_price" :> N(100) @@ "rsi" :> N(k) @@ o,
           NoKeys, NoKeys, NoKeys) :
        k \in RsiLow .. RsiHigh,
        o \in {NoKeys, "macd_histogram" :> D(12, 10)} }

\* the record of the oversold-bounce scenario
OversoldBounceScenario ==
    Dict("current_price" :> N(100) @@ "rsi" :> N(20)
             @@ "macd_histogram" :> D(12, 10) @@ "sma_20" :> N(98)
             @@ "sma_50" :> N(95) @@ "price_change_1d" :> D(15, 10),
         NoKeys, NoKeys, NoKeys)

\* an argument that is not a mapping
NotAMapping == [kind |-> "other"]

\* records whose technical evidence is one support or resistance flag,
\* alone or next to an RSI
SupportResistanceInputs ==
    { Dict("current_price" :> N(100) @@ o, NoKeys, k :> TRUE, NoKeys) :
        k \in {"bounce_from_support", "near_support", "failed_resistance",
               "near_resistance"},
        o \in {NoKeys, "rsi" :> N(50), "rsi" :> N(55)} }

\* records with a large move of the day, up to 15% either way
BigMoveInputs ==
    { Dict("current_price" :> N(100) @@ "price_change_1d" :> N(k) @@ t.num,
           NoKeys, t.flag, NoKeys) :
        t \in TechnicalProfiles, k \in {-15, -13, -12, -5, 5, 12, 13, 15} }

Inputs ==
    ValidInputs \cup InvalidPriceInputs \cup WrongTypeInputs \cup {NotAMapping}
        \cup PartialInputs \cup SuppliedLocalScoreInputs \cup RsiSweepInputs
        \cup {OversoldBounceScenario} \cup SupportResistanceInputs
        \cup BigMoveInputs

-----------------------------------------------------------------------------
(* The state machine: one call of predict on a fresh QuickModelV6 *)

Init ==
    /\ features \in Inputs
    /\ result = NoResult
    /\ locals = [computed |-> {}, raised |-> FALSE, frame |-> NoFrame]
    /\ pc = "called"
    /\ now = 0
    /\ self = [i \in Instances |-> QuickModelV6]

\* model.predict(features)
Predict ==
    /\ pc = "called"
    /\ \E r \in {predict(features, now)} :
           /\ pc' = r.outcome
           /\ result' = r.value
           /\ locals' =
                  [computed |-> r.computed, raised |-> r.raised,
                   frame |-> r.frame]
    /\ now' = now + 1
    /\ UNCHANGED <<features, self>>

Next == Predict

Spec == Init /\ [][Next]_vars


-----------------------------------------------------------------------------
(* Two calls of predict, on one instance or on two, that run in any order
   and interleave between the steps of predict.  Here features, pc, locals
   and result hold one value for each call: features[t] is the record the
   caller passed, locals[t] the call's own variables. *)

Threads == {1, 2}

\* the records the two callers pass
CallInputs ==
    { Dict("current_price" :> N(100), NoKeys, NoKeys, NoKeys),
      Dict("current_price" :> 0 @@ "rsi" :> N(55), NoKeys, NoKeys, NoKeys),
      Dict("current_price" :> N(100), NoKeys, NoKeys, "rsi" :> "str"),
      Dict("current_price" :> N(100), NoKeys, NoKeys, "rsi" :> "none"),
      Dict("current_price" :> N(100) @@ "price_change_1d" :> -N(3)
               @@ "news_sentiment_score" :> N(3) @@ "news_count" :> N(15),
           NoKeys, NoKeys, NoKeys),
      Dict("current_price" :> N(100) @@ "asian_market_change" :> D(15, 10)
               @@ "asian_market_strength" :> N(1),
           "asian_market_sentiment" :> "positive", NoKeys, NoKeys),
      OversoldBounceScenario,
      NotAMapping }

\* the weights of the instance with the sentiment weight halved
WeightsDampedInPlace(w, sentiment_score, price_change_1d) ==
    IF DampenSentiment(sentiment_score, price_change_1d) # sentiment_score
    THEN [w EXCEPT !.sentiment = RDiv(@, 2)]
    ELSE w

\* lines 96-106: damping halves the local variable sentiment_score; the
\* weights w of the instance stay as they are
WeightsAfterDamping(w, sentiment_score, price_change_1d) == w

\* lines 78-85: the call ends before any scorer runs
EndsEarly(f) ==
    \/ ~IsDict(f)
    \/ IsBad(f, "current_price")
    \/ InvalidPrice(Get(f, "current_price", 0))

InitCalls ==
    /\ features \in [Threads -> CallInputs]
    /\ \E i \in Instances :
           locals = [t \in Threads |->
                        [instance |-> IF t = 1 THEN 1 ELSE i,
                         argument |-> features[t], features |-> <<>>,
                         scores |-> <<>>, seen |-> <<>>]]
    /\ pc = [t \in Threads |-> "called"]
    /\ result = [t \in Threads |-> NoResult]
    /\ now = 0
    /\ self = [i \in Instances |-> QuickModelV6]

\* the call returns `value`, built from the instance fields it reads now
ReturnFrom(t, value) ==
    /\ result' = [result EXCEPT ![t] = value]
    /\ locals' = [locals EXCEPT ![t].seen = self[locals[t].instance]]
    /\ pc' = [pc EXCEPT ![t] = "returned"]
    /\ now' = now + 1

\* lines 78-85: the sanitised copy and the price check
Enter(t) ==
    /\ pc[t] = "called"
    /\ IF EndsEarly(features[t])
       THEN ReturnFrom(t, predict(features[t], now).value)
       ELSE /\ locals' = [locals EXCEPT ![t].features = features[t]]
            /\ pc' = [pc EXCEPT ![t] = "scoring"]
            /\ UNCHANGED <<result, now>>
    /\ UNCHANGED <<features, self>>

\* lines 87-114: the scorers, run on the call's copy of the record
Score(t) ==
    /\ pc[t] = "scoring"
    /\ LET f == locals[t].features
       IN  IF technical_raises(f) \/ local_us_factors_raises(f)
           THEN /\ ReturnFrom(t, predict(f, now).value)
                /\ UNCHANGED self
           ELSE /\ locals' = [locals EXCEPT ![t].scores = ComponentScores(f)]
                /\ self' =
                       [self EXCEPT ![locals[t].instance].weights =
                            WeightsAfterDamping(
                                @, calculate_sentiment_score_v2(f),
                                Get(f, "price_change_1d", 0))]
                /\ pc' = [pc EXCEPT ![t] = "deciding"]
                /\ UNCHANGED <<result, now>>
    /\ UNCHANGED features

\* lines 116-250: the composite, the probability and the record returned
Finish(t) ==
    /\ pc[t] = "deciding"
    /\ LET f == locals[t].features
       IN  ReturnFrom(t, Decide(f, Get(f, "current_price", 0), now,
                                locals[t].scores).value)
    /\ UNCHANGED <<features, self>>

NextCalls == \E t \in Threads : Enter(t) \/ Score(t) \/ Finish(t)

SpecCalls == InitCalls /\ [][NextCalls]_vars

-----------------------------------------------------------------------------
(* QuickModelV2 (backend/python/models/quick_model_v2.py), constructed with
   no saved model, so that base_model is None and predict takes the
   rule-based fallback.  A feature record is a dict of numbers (volume_spike
   holds 1 for True); results are fixed-point numbers, expected_pct_move
   counts hundredths.  A reason is modelled by the name of its template. *)

\* lines 64-72
base_features ==
    {"close", "volume", "price_change_1d", "price_change_3d",
     "price_change_7d", "ema_12", "ema_26", "macd", "macd_signal",
     "macd_hist", "rsi_14", "rsi_7", "atr_14", "obv", "bb_upper",
     "bb_middle", "bb_lower", "bb_width", "bb_pct", "distance_to_support",
     "distance_to_resistance", "volume_sma_ratio", "volume_spike",
     "news_sentiment_score", "fear_greed_index"}

\* lines 74-78
asian_features ==
    {"nikkei_change_pct", "hang_seng_change_pct", "shanghai_change_pct",
     "nifty_change_pct", "asian_avg_change", "asian_influence_score"}

\* lines 55-80: the fields of an instance with the default environment
QuickModelV2 ==
    [base_model |-> "None", asian_influence_max |-> D(5, 10),
     asian_influence_scale |-> N(2),
     all_features |-> base_features \cup asian_features]

\* lines 230-242: every known feature, 0.0 where the caller gave none
validate_features(f) == [k \in QuickModelV2.all_features |-> Get(f, k, 0)]

\* np.sign
NpSign(x) == IF x > 0 THEN 1 ELSE IF x < 0 THEN -1 ELSE 0

\* a / b for a fixed-point a and b > 0, by long division to five decimals
Quot(a, b) ==
    LET r0 == Abs(a) % b
        r1 == (10 * r0) % b
        r2 == (10 * r1) % b
        r3 == (10 * r2) % b
        r4 == (10 * r3) % b
        digits == 10000 * ((10 * r0) \div b) + 1000 * ((10 * r1) \div b)
                      + 100 * ((10 * r2) \div b) + 10 * ((10 * r3) \div b)
                      + ((10 * r4) \div b)
    IN  Sign(a) * ((Abs(a) \div b) * Scale + digits)

\* lines 248-250: 1 / (1 + exp(-x)) = (1 + tanh(x / 2)) / 2
sigmoid(x) == RDiv(Scale + Tanh(RDiv(Clip(x, -N(500), N(500)), 2)), 2)

\* lines 296-344
detect_rebound_pattern(v) ==
    LET news_after_decline ==
            IF v.news_sentiment_score > D(3, 10) /\ v.price_change_7d < 0
            THEN D(5, 10) + Min(RDiv(Abs(v.price_change_7d), 15), D(6, 10))
                     + (IF v.price_change_1d > 0 \/ v.price_change_3d > 0
                        THEN D(2, 10) ELSE 0)
            ELSE 0
        v_shape ==
            IF /\ v.price_change_7d < -N(3)
               /\ v.price_change_3d > N(1)
               /\ v.price_change_1d > 0
            THEN Clip(RDiv(RDiv(v.price_change_1d + v.price_change_3d, 2), 10),
                      0, D(4, 10))
            ELSE 0
        oversold_news ==
            IF /\ v.rsi_14 < N(40)
               /\ v.news_sentiment_score > D(2, 10)
               /\ v.price_change_1d > D(5, 10)
            THEN D(3, 10) ELSE 0
        bounce ==
            IF v.price_change_1d > N(2) /\ v.news_sentiment_score > D(2, 10)
            THEN D(5, 10) ELSE 0
        oversold_volume ==
            IF /\ v.rsi_14 < N(35)
               /\ v.volume_sma_ratio > D(13, 10)
               /\ v.price_change_1d > 0
            THEN D(35, 100) ELSE 0
    IN  Clip(news_after_decline + v_shape + oversold_news + bounce
                 + oversold_volume, -Scale, Scale)

\* lines 254-294, given the rebound score of line 257
FallbackScore(v, rebound_score) ==
    LET news_sentiment == v.news_sentiment_score
        rebound == IF rebound_score # 0 THEN Mul(rebound_score, D(6, 10)) ELSE 0
        news ==
            IF Abs(news_sentiment) > 0
            THEN IF rebound_score > 0 /\ news_sentiment > 0
                 THEN Clip(Mul(news_sentiment, D(5, 10)), 0, D(5, 10))
                 ELSE Clip(Mul(news_sentiment, D(3, 10)), -D(3, 10), D(3, 10))
            ELSE 0
        rsi ==
            IF v.rsi_14 > N(70)
            THEN IF news_sentiment > D(3, 10) \/ rebound_score > D(3, 10)
                 THEN -D(1, 10) ELSE -D(25, 100)
            ELSE IF v.rsi_14 < N(30) THEN D(3, 10) ELSE 0
        macd == Clip(RDiv(v.macd_hist, 10), -D(2, 10), D(2, 10))
        momentum ==
            Clip(RDiv(v.price_change_1d, 50), -D(2, 10), D(2, 10))
                + Clip(RDiv(v.price_change_3d, 150), -D(15, 100), D(15, 100))
    IN  Clip(rebound + news + rsi + macd + momentum, -Scale, Scale)

\* lines 252-294
fallback_prediction(v) == FallbackScore(v, detect_rebound_pattern(v))

\* lines 176-181: a strong rebound is added to the base score
ReboundBoost(base_score, rebound_boost) ==
    IF rebound_boost > D(3, 10)
    THEN Clip(base_score + Mul(rebound_boost, D(4, 10)), -Scale, Scale)
    ELSE base_score

\* the impact of the Asian markets, without the cap
AsianImpactUncapped(asian_influence_score, asian_influence_max) ==
    Mul(Abs(asian_influence_score), asian_influence_max)

\* lines 183-187
AsianImpact(asian_influence_score, asian_influence_max) ==
    Min(Mul(Abs(asian_influence_score), asian_influence_max),
        asian_influence_max)

\* the ensemble with the base score at full weight
FinalScoreBaseUnweighted(base_score, asian_influence_score, asian_impact_pct) ==
    base_score
        + Mul(asian_impact_pct * NpSign(asian_influence_score),
              Abs(asian_influence_score))

\* lines 189-193
FinalScore(base_score, asian_influence_score, asian_impact_pct) ==
    Mul(Scale - asian_impact_pct, base_score)
        + Mul(asian_impact_pct * NpSign(asian_influence_score),
              Abs(asian_influence_score))

\* lines 359-369: np.interp over the calibration curve
CalibrationCurve(x) ==
    IF x <= D(1, 10) THEN D(5, 10)
    ELSE IF x <= D(3, 10) THEN D(5, 10) + RDiv(7 * (x - D(1, 10)), 2)
    ELSE IF x <= D(5, 10) THEN D(12, 10) + 4 * (x - D(3, 10))
    ELSE IF x <= D(7, 10) THEN N(2) + 5 * (x - D(5, 10))
    ELSE IF x <= N(1) THEN N(3) + RDiv(10 * (x - D(7, 10)), 3)
    ELSE N(4)

\* lines 346-378
calculate_expected_move(final_score, atr, bb_width) ==
    LET volatility_factor == IF atr > 0 THEN Scale + RDiv(atr, 10) ELSE Scale
    IN  Round2(Mul(CalibrationCurve(Abs(final_score)), volatility_factor)
                   * NpSign(final_score))

\* lines 437-451: the warnings found, put together
AggregateWarnings(v, warnings) ==
    IF warnings = <<>>
    THEN [warning |-> FALSE]
    ELSE [warning |-> TRUE,
          severity |->
              IF \E i \in DOMAIN warnings : warnings[i].severity = "HIGH"
              THEN "HIGH" ELSE "MEDIUM",
          reasons |-> [i \in DOMAIN warnings |-> warnings[i].reason],
          confidence |->
              CHOOSE c \in {warnings[i].confidence : i \in DOMAIN warnings} :
                  \A i \in DOMAIN warnings : warnings[i].confidence <= c,
          details |->
              [price_change_7d |-> v.price_change_7d, rsi |-> v.rsi_14,
               volume_ratio |-> v.volume_sma_ratio]]

\* a Bollinger warning for a z-score above 2.5 only
BollingerWarningHighOnly(z_score) ==
    IF z_score > D(25, 10)
    THEN <<[reason |-> "bollinger_z_score", severity |-> "HIGH",
            confidence |-> Min(D(85, 100), RDiv(z_score, 3))]>>
    ELSE <<>>

\* lines 407-423, given the z-score of line 415
BollingerWarning(z_score) ==
    IF z_score > N(2)
    THEN <<[reason |-> "bollinger_z_score",
            severity |-> IF z_score > D(25, 10) THEN "HIGH" ELSE "MEDIUM",
            confidence |-> Min(D(85, 100), RDiv(z_score, 3))]>>
    ELSE <<>>

\* lines 380-451, with the default thresholds of lines 390-392
detect_correction_warning(v) ==
    LET surge ==
            IF v.price_change_7d > N(10) /\ v.rsi_14 > N(80)
            THEN <<[reason |-> "price_surge_rsi",
                    severity |-> IF v.rsi_14 > N(85) THEN "HIGH" ELSE "MEDIUM",
                    confidence |->
                        Min(D(9, 10), D(5, 10) + RDiv(v.rsi_14 - N(70), 50))]>>
            ELSE <<>>
        bollinger ==
            IF v.bb_pct > N(1) /\ v.bb_width > 0
            THEN BollingerWarning(Quot(2 * (v.close - v.bb_middle), v.bb_width))
            ELSE <<>>
        volume ==
            IF v.volume_sma_ratio > N(2) /\ v.price_change_7d > N(10)
            THEN <<[reason |-> "volume_with_price_spike",
                    severity |-> "MEDIUM", confidence |-> D(65, 100)]>>
            ELSE <<>>
    IN  AggregateWarnings(v, surge \o bollinger \o volume)

\* lines 464-479: the rebound reason, if any
ReboundReason(v) ==
    IF v.news_sentiment_score > D(3, 10) /\ v.price_change_7d < 0
    THEN IF v.price_change_1d > 0 \/ v.price_change_3d > 0
         THEN <<"rebound_confirmed">> ELSE <<"rebound_setup">>
    ELSE IF /\ v.price_change_7d < -N(3)
            /\ v.price_change_3d > N(1)
            /\ v.price_change_1d > 0
    THEN <<"v_shaped_recovery">>
    ELSE IF v.price_change_1d > N(2) /\ v.news_sentiment_score > D(2, 10)
    THEN <<"significant_bounce">>
    ELSE <<>>

\* lines 481-531: the reasons after the rebound reason
OtherReasons(v, asian_score, is_rebounding) ==
    LET news ==
            IF Abs(v.news_sentiment_score) > D(3, 10) /\ ~is_rebounding
            THEN <<"news_sentiment">> ELSE <<>>
        asian ==
            IF Abs(asian_score) > D(3, 10) THEN <<"asian_markets">> ELSE <<>>
        rsi ==
            IF v.rsi_14 > N(70)
            THEN IF is_rebounding
                 THEN <<"rsi_elevated">> ELSE <<"rsi_overbought">>
            ELSE IF v.rsi_14 < N(30) THEN <<"rsi_oversold">>
            ELSE IF v.rsi_14 < N(40) THEN <<"rsi_recovery_zone">>
            ELSE <<>>
        trend ==
            IF Abs(v.price_change_7d) > N(5) /\ ~is_rebounding
            THEN <<"strong_trend">> ELSE <<>>
        macd ==
            IF Abs(v.macd_hist) > D(5, 10) THEN <<"macd_momentum">> ELSE <<>>
        volume ==
            IF v.volume_spike # 0 \/ v.volume_sma_ratio > D(15, 10)
            THEN IF is_rebounding
                 THEN <<"volume_confirms_rebound">> ELSE <<"elevated_volume">>
            ELSE <<>>
        fear_greed ==
            IF v.fear_greed_index > N(75) THEN <<"market_greed">>
            ELSE IF v.fear_greed_index < N(25) THEN <<"market_fear">>
            ELSE <<>>
    IN  news \o asian \o rsi \o trend \o macd \o volume \o fear_greed

\* line 534: reasons[:6], or the one default reason
TopReasons(reasons) ==
    IF reasons # <<>>
    THEN SubSeq(reasons, 1, Min(6, Len(reasons)))
    ELSE <<"trend_continuation">>

\* lines 453-534
generate_reasons(v, final_score, asian_score, base_score) ==
    TopReasons(ReboundReason(v)
                   \o OtherReasons(v, asian_score, ReboundReason(v) # <<>>))

\* lines 195-228
ResponseV2(v, base_score, asian_impact_pct, final_score, t) ==
    [label |-> IF final_score > 0 THEN "BULLISH" ELSE "BEARISH",
     probability |-> sigmoid(final_score * 5),
     expected_pct_move |->
         calculate_expected_move(final_score, v.atr_14, v.bb_width),
     asian_influence_score |-> v.asian_influence_score,
     asian_impact_percent |-> asian_impact_pct,
     base_score |-> base_score,
     final_score |-> final_score,
     correction_warning |-> detect_correction_warning(v),
     top_reasons |->
         generate_reasons(v, final_score, v.asian_influence_score, base_score),
     model_version |-> "quick_model_v2",
     timestamp |-> t]

\* lines 183-193
Ensemble(v, base_score, asian_impact_pct, t) ==
    ResponseV2(v, base_score, asian_impact_pct,
               FinalScore(base_score, v.asian_influence_score,
                          asian_impact_pct), t)

\* lines 161-187, on the validated record
PredictValidated(v, t) ==
    Ensemble(v,
             ReboundBoost(fallback_prediction(v), detect_rebound_pattern(v)),
             AsianImpact(v.asian_influence_score,
                         QuickModelV2.asian_influence_max),
             t)

\* lines 148-228
predict_v2(f, t) == PredictValidated(validate_features(f), t)

\* the Asian influence scores tried: steps of 0.2 up to 3.0 either way,
\* and values close to neutral
AsianScoreSteps == 15

AsianScores ==
    {RDiv(N(k), 5) : k \in -AsianScoreSteps .. AsianScoreSteps}
        \cup {D(5, 100), D(19, 100), -D(19, 100), D(7, 10)}

\* the rest of the record: the records of the test suite and records that
\* reach each pattern, each reason and each warning
BaseProfiles ==
    { "close" :> N(150),
      "close" :> N(150) @@ "rsi_14" :> N(50) @@ "macd_hist" :> 0
          @@ "atr_14" :> N(2),
      "close" :> N(150) @@ "rsi_14" :> N(50) @@ "fear_greed_index" :> N(50),
      "close" :> N(150) @@ "rsi_14" :> N(60) @@ "asian_avg_change" :> D(1, 10)
          @@ "atr_14" :> N(2) @@ "bb_width" :> N(5),
      "close" :> N(150) @@ "rsi_14" :> N(35) @@ "macd_hist" :> D(15, 10)
          @@ "atr_14" :> N(2) @@ "bb_width" :> N(5),
      "close" :> N(150) @@ "rsi_14" :> N(85) @@ "macd_hist" :> N(2)
          @@ "price_change_7d" :> N(15) @@ "volume_sma_ratio" :> N(2)
          @@ "atr_14" :> N(2),
      "close" :> N(150) @@ "rsi_14" :> N(38) @@ "fear_greed_index" :> N(50)
          @@ "news_sentiment_score" :> D(6, 10) @@ "price_change_7d" :> -N(6)
          @@ "price_change_3d" :> N(2) @@ "price_change_1d" :> N(1)
          @@ "volume_sma_ratio" :> D(16, 10),
      "close" :> N(150) @@ "rsi_14" :> N(32) @@ "fear_greed_index" :> N(20)
          @@ "news_sentiment_score" :> D(4, 10) @@ "price_change_7d" :> -N(12)
          @@ "volume_sma_ratio" :> D(14, 10) @@ "price_change_1d" :> N(3),
      "close" :> N(150) @@ "rsi_14" :> N(75) @@ "fear_greed_index" :> N(50)
          @@ "news_sentiment_score" :> D(5, 10) @@ "price_change_7d" :> -N(2),
      "close" :> N(150) @@ "rsi_14" :> N(60) @@ "fear_greed_index" :> N(80)
          @@ "news_sentiment_score" :> -D(6, 10) @@ "price_change_7d" :> -N(8)
          @@ "price_change_3d" :> -N(6) @@ "price_change_1d" :> -N(5)
          @@ "macd_hist" :> -N(1) @@ "atr_14" :> N(3),
      "close" :> N(150) @@ "rsi_14" :> N(86) @@ "fear_greed_index" :> N(80)
          @@ "price_change_7d" :> N(12) @@ "bb_pct" :> D(11, 10)
          @@ "bb_width" :> N(4) @@ "bb_middle" :> N(145)
          @@ "volume_sma_ratio" :> D(25, 10),
      "close" :> N(150) @@ "rsi_14" :> N(50) @@ "fear_greed_index" :> N(50)
          @@ "price_change_7d" :> -N(4) @@ "price_change_3d" :> N(2)
          @@ "price_change_1d" :> N(1),
      "close" :> N(150) @@ "rsi_14" :> N(50) @@ "fear_greed_index" :> N(50)
          @@ "price_change_1d" :> N(3) @@ "news_sentiment_score" :> D(25, 100),
      "close" :> N(150) @@ "rsi_14" :> N(50) @@ "fear_greed_index" :> N(50)
          @@ "price_change_1d" :> N(5),
      "close" :> N(150) @@ "rsi_14" :> N(75) @@ "fear_greed_index" :> N(80)
          @@ "news_sentiment_score" :> D(6, 10) @@ "price_change_7d" :> N(8)
          @@ "macd_hist" :> N(1) @@ "volume_spike" :> N(1) }

\* records around each threshold of the correction warning: the records of
\* the test suite, each check alone, and each check just missed
WarningProfiles ==
    { "close" :> N(165) @@ "price_change_7d" :> D(125, 10) @@ "rsi_14" :> N(87)
          @@ "bb_pct" :> D(11, 10) @@ "bb_middle" :> N(150)
          @@ "bb_width" :> N(10) @@ "volume_sma_ratio" :> D(12, 10)
          @@ "atr_14" :> N(2),
      "close" :> N(170) @@ "price_change_7d" :> N(8) @@ "rsi_14" :> N(75)
          @@ "bb_pct" :> D(13, 10) @@ "bb_middle" :> N(150)
          @@ "bb_width" :> N(10) @@ "volume_sma_ratio" :> N(1)
          @@ "atr_14" :> N(2),
      "close" :> N(160) @@ "price_change_7d" :> N(11) @@ "rsi_14" :> N(70)
          @@ "bb_pct" :> D(9, 10) @@ "bb_middle" :> N(150)
          @@ "bb_width" :> N(10) @@ "volume_sma_ratio" :> D(25, 10)
          @@ "atr_14" :> N(2),
      "close" :> N(152) @@ "price_change_7d" :> N(3) @@ "rsi_14" :> N(55)
          @@ "bb_pct" :> D(5, 10) @@ "bb_middle" :> N(150)
          @@ "bb_width" :> N(10) @@ "volume_sma_ratio" :> N(1)
          @@ "atr_14" :> N(2),
      "close" :> N(150) @@ "price_change_7d" :> N(11) @@ "rsi_14" :> N(82)
          @@ "fear_greed_index" :> N(50),
      "close" :> N(150) @@ "price_change_7d" :> N(10) @@ "rsi_14" :> N(90)
          @@ "volume_sma_ratio" :> N(3) @@ "fear_greed_index" :> N(50),
      "close" :> N(150) @@ "price_change_7d" :> N(11) @@ "rsi_14" :> N(80)
          @@ "volume_sma_ratio" :> N(2) @@ "fear_greed_index" :> N(50),
      "close" :> N(150) @@ "rsi_14" :> N(50) @@ "bb_pct" :> D(11, 10)
          @@ "bb_middle" :> N(145) @@ "bb_width" :> N(4),
      "close" :> N(150) @@ "rsi_14" :> N(50) @@ "bb_pct" :> D(11, 10)
          @@ "bb_middle" :> N(145) @@ "bb_width" :> N(5),
      "close" :> N(150) @@ "rsi_14" :> N(50) @@ "bb_pct" :> N(1)
          @@ "bb_middle" :> N(140) @@ "bb_width" :> N(4),
      "close" :> N(150) @@ "rsi_14" :> N(50) @@ "bb_pct" :> D(12, 10)
          @@ "bb_middle" :> N(140) @@ "bb_width" :> 0 }

\* records whose base score is weak: 0.5, 0.05, 0, -0.03 and -0.5
OverrideProfiles ==
    { "close" :> N(150) @@ "rsi_14" :> N(25) @@ "macd_hist" :> N(2)
          @@ "fear_greed_index" :> N(50),
      "close" :> N(150) @@ "rsi_14" :> N(55) @@ "macd_hist" :> D(5, 10)
          @@ "asian_avg_change" :> -D(25, 10) @@ "atr_14" :> N(2)
          @@ "bb_width" :> N(5),
      "close" :> N(150) @@ "rsi_14" :> N(45) @@ "macd_hist" :> -D(3, 10)
          @@ "asian_avg_change" :> D(28, 10) @@ "atr_14" :> N(2)
          @@ "bb_width" :> N(5),
      "close" :> N(150) @@ "rsi_14" :> N(75) @@ "macd_hist" :> -N(2)
          @@ "price_change_1d" :> -D(25, 10) @@ "fear_greed_index" :> N(50) }

InputsV2 ==
    { Dict(profile @@ "asian_influence_score" :> a, NoKeys, NoKeys, NoKeys) :
          profile \in BaseProfiles \cup WarningProfiles \cup OverrideProfiles,
          a \in AsianScores }
        \cup {Dict("close" :> N(150), NoKeys, NoKeys, NoKeys)}

InitV2 ==
    /\ features \in InputsV2
    /\ result = NoResult
    /\ locals = [validated |-> <<>>]
    /\ pc = "called"
    /\ now = 0
    /\ self = [i \in Instances |-> QuickModelV2]

PredictV2 ==
    /\ pc = "called"
    /\ result' = predict_v2(features, now)
    /\ locals' = [validated |-> validate_features(features)]
    /\ pc' = "returned"
    /\ now' = now + 1
    /\ UNCHANGED <<features, self>>

NextV2 == PredictV2

SpecV2 == InitV2 /\ [][NextV2]_vars

-----------------------------------------------------------------------------
(* QuickModelV4._detect_correction_warning
   (backend/python/models/quick_model_v4.py), called by predict on the
   validated record.  The record is modelled by the features the function
   reads; a pattern is modelled by its name, the correction score is a
   fixed-point number. *)

\* lines 514-556: the patterns 1 to 6 that fire, in the order of the code
CorrectionPatterns(v) ==
    (IF v.rsi_14 > N(75)
     THEN <<[pattern |-> "overbought_rsi", direction |-> "DOWN",
             score |-> Min((v.rsi_14 - N(70)) * 10, N(40))]>>
     ELSE <<>>)
    \o (IF v.rsi_14 < N(25)
        THEN <<[pattern |-> "oversold_rsi", direction |-> "UP",
                score |-> Min((N(30) - v.rsi_14) * 10, N(40))]>>
        ELSE <<>>)
    \o (IF /\ v.price_change_7d > N(10)
           /\ v.price_change_3d > N(5)
           /\ v.rsi_14 > N(70)
        THEN <<[pattern |-> "parabolic_rise", direction |-> "DOWN",
                score |-> N(30)]>>
        ELSE <<>>)
    \o (IF v.price_change_7d < -N(10) /\ v.rsi_14 < N(35)
        THEN <<[pattern |-> "extended_decline", direction |-> "UP",
                score |-> N(25)]>>
        ELSE <<>>)
    \o (IF v.bb_pct > D(95, 100) /\ v.rsi_14 > N(65)
        THEN <<[pattern |-> "upper_bb_breakout", direction |-> "DOWN",
                score |-> N(20)]>>
        ELSE <<>>)
    \o (IF v.bb_pct < D(5, 100) /\ v.rsi_14 < N(40)
        THEN <<[pattern |-> "lower_bb_breakdown", direction |-> "UP",
                score |-> N(20)]>>
        ELSE <<>>)

\* the sum of the scores of the patterns
RECURSIVE SumScores(_)
SumScores(fired) ==
    IF fired = <<>> THEN 0 ELSE fired[1].score + SumScores(Tail(fired))

\* lines 565-573: the record returned for the patterns that fired
WarningRecord(fired) ==
    LET correction_score == Min(SumScores(fired), N(100))
    IN  [warning |-> fired # <<>>,
         correction_score |-> correction_score,
         direction |->
             IF fired = <<>> THEN "NEUTRAL" ELSE fired[Len(fired)].direction,
         patterns |-> [i \in DOMAIN fired |-> fired[i].pattern],
         severity |->
             IF correction_score > N(60) THEN "HIGH"
             ELSE IF correction_score > N(30) THEN "MODERATE"
             ELSE "LOW"]

\* lines 496-573.  Pattern 7 (line 559) reads price_change_1d, a name that
\* the function never binds: when volume_spike is truthy and rsi_14 > 70 the
\* third operand is evaluated and Python raises NameError
detect_correction_warning_v4(v) ==
    IF v.volume_spike # 0 /\ v.rsi_14 > N(70)
    THEN [raised |-> TRUE, exception |-> "NameError", value |-> NoResult]
    ELSE [raised |-> FALSE, exception |-> "",
          value |-> WarningRecord(CorrectionPatterns(v))]

\* validated records around every threshold of the function
InputsV4 ==
    [rsi_14 : {0, N(20), N(30), N(38), N(50), N(66), N(71), N(73), N(76),
               N(80)},
     rsi_7 : {N(50)},
     price_change_7d : {-N(12), 0, N(12)},
     price_change_3d : {0, N(6)},
     price_change_1d : {0, N(4)},
     bb_pct : {0, D(5, 10), N(1)},
     volume_spike : {0, N(1)}]

InitV4 ==
    /\ features \in InputsV4
    /\ result = NoResult
    /\ locals = [exception |-> ""]
    /\ pc = "called"
    /\ now = 0
    /\ self = [i \in Instances |-> [base_model |-> "None"]]

\* predict, lines 230-231: the call; an exception propagates to the caller
DetectCorrectionWarning ==
    /\ pc = "called"
    /\ \E r \in {detect_correction_warning_v4(features)} :
           /\ result' = r.value
           /\ locals' = [exception |-> r.exception]
           /\ pc' = IF r.raised THEN "raised" ELSE "returned"
    /\ UNCHANGED <<features, now, self>>

NextV4 == DetectCorrectionWarning

SpecV4 == InitV4 /\ [][NextV4]_vars

-----------------------------------------------------------------------------
(* Properties of QuickModelV6.predict *)

\* predict has returned a success record
Succeeded == pc = "returned" /\ result.success

\* the feature record holds only numbers, labels and flags
WellTyped == IsDict(features) /\ DOMAIN features.bad = {}

\* C1: for every feature record with current_price > 0, predict returns a
\* direction that is "up" or "down", never neutral, and a bullish
\* probability that is never strictly between 0.45 and 0.55
C1_NeverNeutral ==
    (pc = "returned" /\ WellTyped /\ Get(features, "current_price", 0) > 0)
    => /\ result.success
       /\ result.prediction.direction \in {"up", "down"}
       /\ ~ (/\ D(45, 100) < locals.frame.bullish_probability
             /\ locals.frame.bullish_probability < D(55, 100))
       /\ ~ (/\ 4500 < result.prediction.bullish_probability
             /\ result.prediction.bullish_probability < 5500)

\* the weakest case: no feature speaks either way and the composite is zero
C1_Witness ==
    /\ Succeeded
    /\ locals.frame.composite_score = 0
    /\ result.prediction.bullish_probability = 5500

\* C2: whenever the composite score is below -0.1 the returned bullish
\* probability is at most 0.44, and whenever it is above 0.1 the returned
\* bullish probability is at least 0.56, whatever the technical score, the
\* sentiment score and the volatility are
C2_HardOverrideLaw ==
    Succeeded
    => /\ locals.frame.composite_score < -D(1, 10)
          => /\ locals.frame.bullish_probability <= D(44, 100)
             /\ result.prediction.bullish_probability <= 4400
       /\ locals.frame.composite_score > D(1, 10)
          => /\ locals.frame.bullish_probability >= D(56, 100)
             /\ result.prediction.bullish_probability >= 5600

\* a bearish composite whose calibrated probability the override replaces
C2_Witness ==
    /\ Succeeded
    /\ locals.frame.composite_score < -D(1, 10)
    /\ locals.frame.calibrated > D(44, 100)
    /\ result.prediction.bullish_probability = 4400

\* C3: the direction tracks the sign of the composite score: "down" for
\* every record whose composite score is negative, "up" for every record
\* whose composite score is positive
C3_DirectionTracksComposite ==
    Succeeded
    => /\ locals.frame.composite_score < 0
          => result.prediction.direction = "down"
       /\ locals.frame.composite_score > 0
          => result.prediction.direction = "up"

\* C4: in every successful result the reported bullish and bearish
\* probabilities, each rounded to four decimals, sum to exactly 1
C4_ProbabilitiesSumToOne ==
    Succeeded
    => result.prediction.bullish_probability
       + result.prediction.bearish_probability = 10000

\* a probability that does not lie on the four-decimal grid, so both
\* reported values are rounded
C4_Witness ==
    /\ Succeeded
    /\ locals.frame.bullish_probability % (Scale \div 10000) # 0

\* C5: in every successful result the reported confidence lies in
\* [min_confidence, max_confidence] = [0.55, 0.98]
C5_ConfidenceInBounds ==
    Succeeded
    => /\ min_confidence <= locals.frame.confidence
       /\ locals.frame.confidence <= max_confidence
       /\ Round4(min_confidence) <= result.prediction.confidence
       /\ result.prediction.confidence <= Round4(max_confidence)
       /\ result.prediction.probability = result.prediction.confidence

\* the strongest bullish case: the confidence sits on the upper limit
C5_Witness ==
    /\ Succeeded
    /\ locals.frame.composite_score > D(8, 10)
    /\ result.prediction.confidence = Round4(max_confidence)

\* a fixed-point score in [-1, 1]
InUnit(x) == -Scale <= x /\ x <= Scale

\* C6: in every successful result each of the six component scores, the
\* composite score and the Asian, European and local region scores lies in
\* [-1, 1]; asian_impact_percent lies in [0, 10], european_impact_percent
\* in [0, 15] and local_impact_percent in [0, 10]
C6_ScoresBounded ==
    Succeeded
    => /\ \A k \in {"technical_score", "sentiment_score", "global_score",
                    "volume_score", "fundamental_score", "intraday_score",
                    "composite_score", "asian_score", "european_score",
                    "local_score"} : InUnit(locals.frame[k])
       /\ \A k \in {"technical", "sentiment", "global_markets", "volume",
                    "fundamentals", "intraday", "composite"} :
              /\ -1000 <= result.scores[k]
              /\ result.scores[k] <= 1000
       /\ \A k \in {"asian_influence_score", "european_influence_score",
                    "local_score"} :
              -1000 <= result[k] /\ result[k] <= 1000
       /\ 0 <= locals.frame.asian_impact_pct
       /\ locals.frame.asian_impact_pct <= N(10)
       /\ 0 <= locals.frame.european_impact_pct
       /\ locals.frame.european_impact_pct <= N(15)
       /\ 0 <= locals.frame.local_impact_pct
       /\ locals.frame.local_impact_pct <= N(10)

\* the regional terms add up to more than 1 and the global score is cut
\* back to 1
C6_Witness ==
    /\ Succeeded
    /\ GlobalMarketTerms(features) > Scale
    /\ result.scores.global_markets = 1000

\* C7: for every feature record with price_change_1d <= -2.0, whatever the
\* volume ratio and the volume trend, the volume score is at most -0.5
C7_BigDropFloorsVolume ==
    (Succeeded /\ Get(features, "price_change_1d", 0) <= -N(2))
    => /\ calculate_volume_score_v2(features) <= -D(5, 10)
       /\ locals.frame.volume_score <= -D(5, 10)

NonPositivePrice ==
    /\ IsDict(features)
    /\ ~IsBad(features, "current_price")
    /\ Get(features, "current_price", 0) <= 0

\* C9: when current_price is missing, zero or negative, predict returns a
\* record that holds success = false, an error message, model_version and
\* timestamp and nothing else, and no component score is computed
C9_InvalidPriceRejected ==
    (pc = "returned" /\ NonPositivePrice)
    => /\ result.success = FALSE
       /\ result.error = "Invalid current price"
       /\ DOMAIN result = {"success", "error", "model_version", "timestamp"}
       /\ result.model_version = version
       /\ locals.computed = {}
       /\ ~locals.raised

\* a record full of features whose price is missing
C9_Witness ==
    /\ pc = "returned"
    /\ NonPositivePrice
    /\ ~HasNum(features, "current_price")
    /\ HasNum(features, "rsi")
    /\ result.success = FALSE

\* C10: predict never lets an exception reach its caller: for every input,
\* wrong value types and inputs that are no mapping included, the call
\* returns a success record or an error record of success = false, error,
\* model_version and timestamp that carries the exception message and no
\* partial scores
C10_NeverRaises ==
    /\ pc \in {"called", "returned"}
    /\ pc = "returned"
       => \/ result.success /\ ~locals.raised
          \/ /\ result.success = FALSE
             /\ DOMAIN result
                = {"success", "error", "model_version", "timestamp"}
             /\ locals.raised
                => result.error
                   \in {"Prediction error: " \o e :
                            e \in {"AttributeError", "ValueError",
                                   "TypeError"}}

\* a scorer raised after other scorers had run, and an error record came back
C10_Witness ==
    /\ pc = "returned"
    /\ locals.raised
    /\ locals.computed = Scorers
    /\ result.error = "Prediction error: TypeError"

\* C11: each of the six component scorers is total: a feature value that is
\* present but is not a number does not make the scorer raise, so every
\* call that reaches the scorers runs all six of them and gets six scores
\* in [-1, 1]
C11_ScorersTotal ==
    (pc = "returned" /\ locals.computed # {})
    => /\ locals.computed = Scorers
       /\ IsStr(features, "rsi") \/ IsStr(features, "macd_histogram")
          \/ IsBad(features, "price_change_1d")
          => /\ result.success
             /\ \A k \in {"technical_score", "sentiment_score",
                          "global_score", "volume_score",
                          "fundamental_score", "intraday_score"} :
                    InUnit(locals.frame[k])

\* the record holds none of the keys in `keys`
Absent(keys) ==
    keys \cap (DOMAIN features.num \cup DOMAIN features.cat
               \cup DOMAIN features.flag) = {}

C16_SuppliedLocalScoreUsed ==
    (Succeeded /\ HasNum(features, "local_us_influence_score"))
    => /\ locals.frame.local_score = features.num["local_us_influence_score"]
       /\ result.local_score
          = Round3(features.num["local_us_influence_score"])

\* C15: with every other feature fixed, the RSI contribution to the
\* technical score does not increase as rsi rises from 20 to 90: for all
\* a < b in that range contribution(a) >= contribution(b), and so for the
\* technical score; the contribution is positive for oversold values
\* (below 30) and negative for overbought values (above 70)
C15_RsiMonotone ==
    (Succeeded /\ features \in RsiSweepInputs)
    => LET a == features.num["rsi"]
       IN  /\ \A k \in RsiLow .. RsiHigh :
                  N(k) > a
                  => /\ RsiSignal(N(k)) <= RsiSignal(a)
                     /\ calculate_technical_score_v2(
                            [features EXCEPT !.num["rsi"] = N(k)])
                        <= locals.frame.technical_score
           /\ a < N(30) => RsiSignal(a) > 0
           /\ a > N(70) => RsiSignal(a) < 0

\* an rsi between the two overbought steps, scored with nothing else
C15_Witness ==
    /\ Succeeded
    /\ features \in RsiSweepInputs
    /\ features.num["rsi"] = N(73)
    /\ locals.frame.technical_score = -D(8, 10)

\* C17: for the record {current_price: 100, rsi: 20, macd_histogram: 1.2,
\* sma_20: 98, sma_50: 95, price_change_1d: 1.5} predict returns direction
\* "up", a technical score above 0.5 and at least one BUY signal
C17_OversoldBounce ==
    (pc = "returned" /\ features = OversoldBounceScenario)
    => /\ result.success
       /\ result.prediction.direction = "up"
       /\ locals.frame.technical_score > D(5, 10)
       /\ result.scores.technical > 500
       /\ \E i \in DOMAIN result.signals : result.signals[i].type = "BUY"

\* the scenario record scored: technical 0.67, a moderate BUY
C17_Witness ==
    /\ pc = "returned"
    /\ features = OversoldBounceScenario
    /\ result.scores.technical = 670
    /\ result.signals[1] = Signal("BUY", "MODERATE")

-----------------------------------------------------------------------------
(* Properties of repeated and interleaved calls (SpecCalls) *)

Returned(t) == pc[t] = "returned"

WithoutTimestamp(r) == [k \in DOMAIN r \ {"timestamp"} |-> r[k]]

-----------------------------------------------------------------------------
(* Properties of QuickModelV2.predict (SpecV2) *)

ReturnedV2 == pc = "returned" /\ "label" \in DOMAIN result

\* C18: asian_impact_percent is min(|asian_influence_score| * 0.5, 0.5): half
\* the magnitude of the score below 1 and 0.5 from there on; it never exceeds
\* 0.5 and it is below 0.1 whenever |asian_influence_score| < 0.2.
C18_AsianImpactCapped ==
    ReturnedV2 =>
        LET a == Abs(result.asian_influence_score)
            p == result.asian_impact_percent
        IN  /\ p = IF a >= N(1) THEN D(5, 10) ELSE RDiv(a, 2)
            /\ p <= D(5, 10)
            /\ a < D(2, 10) => p < D(1, 10)

\* a score of 3.0 is capped at 0.5
C18_Witness ==
    /\ ReturnedV2
    /\ result.asian_influence_score = N(3)
    /\ result.asian_impact_percent = D(5, 10)

\* C19: the label is BULLISH or BEARISH and expected_pct_move is strictly
\* positive when the label is BULLISH and strictly negative when it is
\* BEARISH, for every record, the fully neutral one included.
C19_MoveSignMatchesLabel ==
    ReturnedV2 =>
        /\ result.label \in {"BULLISH", "BEARISH"}
        /\ result.label = "BULLISH" => result.expected_pct_move > 0
        /\ result.label = "BEARISH" => result.expected_pct_move < 0

\* C20: top_reasons has at least one entry and at most 5 entries.
C20_OneToFiveReasons ==
    ReturnedV2 => Len(result.top_reasons) \in 1 .. 5

\* C21: correction_warning has warning = true exactly when the 7-day change
\* is above 10 with rsi_14 above 80, or bb_pct is above 1.0 with a positive
\* bb_width and close more than two half-widths above bb_middle, or
\* volume_sma_ratio is above 2.0 with the 7-day change above 10; otherwise it
\* is exactly {warning: false}.  When the first check fires with rsi_14 > 85
\* the severity is HIGH and the first reason is the one that names the RSI.
C21_WarningExactly ==
    ReturnedV2 =>
        LET v == locals.validated
            w == result.correction_warning
            surge == v.price_change_7d > N(10) /\ v.rsi_14 > N(80)
            bollinger ==
                /\ v.bb_pct > N(1)
                /\ v.bb_width > 0
                /\ v.close - v.bb_middle > v.bb_width
            volume == v.volume_sma_ratio > N(2) /\ v.price_change_7d > N(10)
        IN  /\ w.warning = (surge \/ bollinger \/ volume)
            /\ ~w.warning => w = [warning |-> FALSE]
            /\ (surge /\ v.rsi_14 > N(85)) =>
                   w.severity = "HIGH" /\ w.reasons[1] = "price_surge_rsi"

\* the record of the test: up 12.5% in 7 days with an RSI of 87
C21_Witness ==
    /\ ReturnedV2
    /\ locals.validated.rsi_14 = N(87)
    /\ locals.validated.price_change_7d = D(125, 10)
    /\ result.correction_warning.warning = TRUE
    /\ result.correction_warning.severity = "HIGH"
    /\ result.correction_warning.reasons[1] = "price_surge_rsi"

\* C22: a strong Asian signal overrides a weakly opposing base score: with
\* asian_influence_score <= -0.8 and a base score in [0, 0.5] the label is
\* BEARISH, final_score < 0 and asian_impact_percent > 0.3; with
\* asian_influence_score >= 0.8 and a base score in [-0.5, 0] the label is
\* BULLISH, final_score > 0 and asian_impact_percent > 0.3.
C22_StrongAsianOverrides ==
    ReturnedV2 =>
        LET a == result.asian_influence_score
            b == result.base_score
        IN  /\ (a <= -D(8, 10) /\ b >= 0 /\ b <= D(5, 10)) =>
                   /\ result.label = "BEARISH"
                   /\ result.final_score < 0
                   /\ result.asian_impact_percent > D(3, 10)
            /\ (a >= D(8, 10) /\ b <= 0 /\ b >= -D(5, 10)) =>
                   /\ result.label = "BULLISH"
                   /\ result.final_score > 0
                   /\ result.asian_impact_percent > D(3, 10)

\* the weakest override: a score of -0.8 against a base score of 0.5
C22_Witness ==
    /\ ReturnedV2
    /\ result.asian_influence_score = -D(8, 10)
    /\ result.base_score = D(5, 10)
    /\ result.label = "BEARISH"
    /\ result.final_score < 0

\* C29: a feature that is absent from the input contributes neutrally: a
\* record that omits rsi_14 gets the base score it would get with the
\* neutral rsi_14 = 50, and a record that holds only `close` gets the base
\* score 0.
C29_AbsentFeatureNeutral ==
    (ReturnedV2 /\ "rsi_14" \notin DOMAIN features.num) =>
        /\ result.base_score
               = predict_v2(Dict(features.num @@ "rsi_14" :> N(50),
                                 NoKeys, NoKeys, NoKeys), now).base_score
        /\ DOMAIN features.num = {"close"} => result.base_score = 0

-----------------------------------------------------------------------------
(* Further properties of QuickModelV6.predict (Spec) *)

\* the probability of lines 868-891: the tanh mapping of the composite, the
\* alignment boost and the volatility damping, before line 894 bounds it
MappedProbability ==
    VolatilityAdjustment(
        AlignmentBoost(
            D(5, 10)
                + RDiv(Tanh(RDiv(locals.frame.composite_score * 3, 2)) * 45,
                       100),
            locals.frame.technical_score, locals.frame.sentiment_score),
        Get(features, "volatility", N(1)))

\* max(|technical|, |sentiment|, |global|, |intraday|)
StrongestSignal ==
    Max(Max(Abs(locals.frame.technical_score),
            Abs(locals.frame.sentiment_score)),
        Max(Abs(locals.frame.global_score),
            Abs(locals.frame.intraday_score)))

\* C23: for every record whose mapped probability (tanh mapping, alignment
\* boost, volatility damping) is strictly between 0.45 and 0.55 and whose
\* composite is within [-0.1, 0.1], the returned bullish_probability is 0.58
\* (positive composite) or 0.42 (negative composite) when the strongest of
\* |technical|, |sentiment|, |global|, |intraday| exceeds 0.3, and 0.56 or
\* 0.44 otherwise.
C23_NeutralZonePushed ==
    (/\ Succeeded
     /\ D(45, 100) < MappedProbability /\ MappedProbability < D(55, 100)
     /\ Abs(locals.frame.composite_score) <= D(1, 10)
     /\ locals.frame.composite_score # 0)
    => result.prediction.bullish_probability
           = IF StrongestSignal > D(3, 10)
             THEN IF locals.frame.composite_score > 0 THEN 5800 ELSE 4200
             ELSE IF locals.frame.composite_score > 0 THEN 5600 ELSE 4400

\* C24: in the technical scorer every sub-signal that is evaluated, the
\* support and resistance flags included, increments the counter by which
\* the sum is divided; in particular a record whose only technical evidence
\* is bounce_from_support = true or failed_resistance = true gets a nonzero
\* technical score, and a flag next to an RSI is averaged with it.
C24_SupportResistanceCounted ==
    (/\ Succeeded
     /\ Absent({"macd_histogram", "sma_20", "sma_50", "bollinger_position",
                "price_change_1d", "price_change_5d"})
     /\ \E k \in {"bounce_from_support", "failed_resistance"} :
            DOMAIN features.flag = {k} /\ features.flag[k])
    => IF Absent({"rsi"})
       THEN locals.frame.technical_score # 0
       ELSE locals.frame.technical_score
                = RDiv(RsiSignal(features.num["rsi"])
                           + SupportResistanceSignal(features), 2)

\* C25: the local impact percent follows the documented bands on
\* |local_score|, the same for positive and negative scores: above 0.5 an
\* impact in [6, 8]; above 0.3 and up to 0.5 an impact in [4, 6]; above 0
\* and up to 0.3 an impact in [2, 4]; exactly 1 for a score of 0.
C25_LocalImpactBands ==
    Succeeded =>
        LET score == Abs(locals.frame.local_score)
            impact == locals.frame.local_impact_pct
        IN  /\ score > D(5, 10) => (N(6) <= impact /\ impact <= N(8))
            /\ (D(3, 10) < score /\ score <= D(5, 10))
                   => (N(4) <= impact /\ impact <= N(6))
            /\ (0 < score /\ score <= D(3, 10))
                   => (N(2) <= impact /\ impact <= N(4))
            /\ score = 0 => impact = N(1)

\* the day's move is above 1% in the predicted direction
MoveInPredictedDirection ==
    /\ Succeeded
    /\ \/ locals.frame.is_bullish /\ Get(features, "price_change_1d", 0) > N(1)
       \/ ~locals.frame.is_bullish
              /\ Get(features, "price_change_1d", 0) < -N(1)

\* C26 as stated: when the prediction is bullish and price_change_1d > 1.0,
\* or bearish and price_change_1d < -1.0, the magnitude of the target change
\* percent is at least 0.8 * |price_change_1d|, for every such
\* price_change_1d.
C26_FloorForEveryMove ==
    MoveInPredictedDirection =>
        Abs(locals.frame.target_change_percent)
            >= RDiv(Abs(Get(features, "price_change_1d", 0)) * 8, 10)

\* C26 amended: in those cases the magnitude of the target change percent is
\* at least 0.8 * |price_change_1d| or the cap of 10, whichever is smaller,
\* and it never exceeds 10: the floor holds for moves up to 12.5%.
C26_FloorUpToCap ==
    MoveInPredictedDirection =>
        /\ Abs(locals.frame.target_change_percent)
               >= Min(RDiv(Abs(Get(features, "price_change_1d", 0)) * 8, 10),
                      N(10))
        /\ Abs(locals.frame.target_change_percent) <= N(10)

\* a bullish prediction after a 12% day, lifted to 9.6% by the floor
C26_Witness ==
    /\ MoveInPredictedDirection
    /\ Get(features, "price_change_1d", 0) = N(12)
    /\ locals.frame.target_change_percent = D(96, 10)
    /\ result.prediction.target_change_percent = 960

\* the positions of the signals of type `type`
SignalsOfType(type) ==
    {i \in DOMAIN result.signals : result.signals[i].type = type}

C28_SignalsAgreeWithDirection ==
    Succeeded =>
        /\ result.prediction.direction = "down" => SignalsOfType("BUY") = {}
        /\ result.prediction.direction = "up" => SignalsOfType("SELL") = {}

-----------------------------------------------------------------------------
(* Properties of QuickModelV4._detect_correction_warning (SpecV4) *)

\* C30: for every validated record, records with a truthy volume_spike and
\* rsi_14 > 70 included, the function returns without raising a record with
\* warning, a correction_score in [0, 100], a direction among UP, DOWN and
\* NEUTRAL, patterns and severity, in which warning is true exactly when
\* the list of patterns is not empty.
C30_WarningRecordAlways ==
    pc # "called" =>
        /\ pc = "returned"
        /\ DOMAIN result
               = {"warning", "correction_score", "direction", "patterns",
                  "severity"}
        /\ result.correction_score >= 0 /\ result.correction_score <= N(100)
        /\ result.direction \in {"UP", "DOWN", "NEUTRAL"}
        /\ result.warning = (result.patterns # <<>>)

====
